---- MODULE Spec2Model ----
(***************************************************************************)
(* A model of the IOC World Bird List reader (tools/iocfiles.py and        *)
(* tools/iocreader.py): the master taxonomy builder IocMasterFile.read,    *)
(* the name transforms it applies, and the merge passes of the auxiliary   *)
(* files.                                                                  *)
(*                                                                         *)
(* Python strings are sequences of one-character strings, so that          *)
(* str.title, str.strip, str.replace and str.split are computed character  *)
(* by character.  The character "+" stands for the extinct marker U+2020.  *)
(* A Python object (a taxon dict) is a position in the sequence taxa; a    *)
(* list of taxa is a sequence of such positions.  A dict key that is not   *)
(* set holds the value Absent; an empty spreadsheet cell (None) is the       *)
(* empty sequence.                                                         *)
(***************************************************************************)
EXTENDS Integers, Sequences, FiniteSets, TLC

VARIABLES
    pc,            \* position in handle_files
    column_shift,  \* IocMasterFile.column_shift
    rownum,        \* number of master rows consumed by the loop of read
    row,           \* the loop variable of IocMasterFile.read (last row consumed)
    taxa,          \* the taxon dicts, in order of creation
    taxonomy,      \* IocWbl.taxonomy: the top-level list
    index,         \* IocWbl.index: keys in insertion order, each with its taxon
    stats,         \* IocWbl.stats
    err,           \* the exception that ended the run, or "none"
    multi,         \* IocMultilingualFile.taxonomy
    comp,          \* IocComplementaryFile.taxonomy
    other,         \* the rows of the worksheet of the IocOtherListsFile
    sheet,         \* the rows of the worksheet of the IocMasterFile
    versions,      \* [file.version for file in ioc_files]
    opts,          \* the arguments write, dry_run and output_dir of handle_files
    fs,            \* the directories of the file system, each with its files
    loaded,        \* the IocWbl made by IocWbl(dirpath)
    batch,         \* the workbooks at the filepaths given to sorted_ioc_files
    result,        \* what sorted_ioc_files returned
    stdout,        \* what the run has printed, in order
    written,       \* the files the run has opened for writing, in order
    cycle          \* the locals of the three-row loop of IocMultilingualFile.read

vars == <<pc, column_shift, rownum, row, taxa, taxonomy, index, stats, err, multi, comp,
          other, sheet, versions, opts, fs, loaded, batch, result, stdout, written,
          cycle>>

\* The state outside the IocWbl and the readers' tables.
outVars == <<sheet, versions, opts, fs, loaded, batch, result, stdout, written, cycle>>

(***************************************************************************)
(* Bounds                                                                  *)
(***************************************************************************)
MaxRows == 7
MaxMultiRows == 3
MaxCompRows == 2
MaxTail == 2
MaxOtherRows == 3
MaxCycleRows == 4

(***************************************************************************)
(* Python str operations                                                   *)
(***************************************************************************)
Dagger == "+"
Space == " "
None == <<>>
Absent == <<"<absent>">>

LowerLetters == <<"a", "b", "c", "d", "f", "n", "o">>
UpperLetters == <<"A", "B", "C", "D", "F", "N", "O">>

IsLower(c) == \E i \in 1..Len(LowerLetters) : LowerLetters[i] = c
IsUpper(c) == \E i \in 1..Len(UpperLetters) : UpperLetters[i] = c
IsCased(c) == IsLower(c) \/ IsUpper(c)

ToUpper(c) ==
    IF IsLower(c)
    THEN UpperLetters[CHOOSE i \in 1..Len(LowerLetters) : LowerLetters[i] = c]
    ELSE c

ToLower(c) ==
    IF IsUpper(c)
    THEN LowerLetters[CHOOSE i \in 1..Len(UpperLetters) : UpperLetters[i] = c]
    ELSE c

\* str.title(): a cased character is upper-cased when the character before it
\* is not cased (or there is none), lower-cased otherwise.
Title(s) ==
    [i \in 1..Len(s) |->
        IF i > 1 /\ IsCased(s[i-1]) THEN ToLower(s[i]) ELSE ToUpper(s[i])]

RECURSIVE LStrip(_, _)
LStrip(s, chars) ==
    IF s # <<>> /\ s[1] \in chars THEN LStrip(Tail(s), chars) ELSE s

RECURSIVE RStrip(_, _)
RStrip(s, chars) ==
    IF s # <<>> /\ s[Len(s)] \in chars
    THEN RStrip(SubSeq(s, 1, Len(s) - 1), chars)
    ELSE s

\* str.strip(chars): removes leading and trailing characters of chars.
StripChars(s, chars) == RStrip(LStrip(s, chars), chars)

\* str.strip(): removes leading and trailing whitespace.
Strip(s) == StripChars(s, {Space})

\* str.replace(" †", ""): removes each occurrence, left to right.
RECURSIVE RemoveSpaceDagger(_)
RemoveSpaceDagger(s) ==
    IF Len(s) < 2 THEN s
    ELSE IF s[1] = Space /\ s[2] = Dagger
         THEN RemoveSpaceDagger(SubSeq(s, 3, Len(s)))
         ELSE <<s[1]>> \o RemoveSpaceDagger(Tail(s))

\* str.split(): the maximal runs of non-whitespace characters.
RECURSIVE SplitFrom(_, _)
SplitFrom(s, word) ==
    IF s = <<>> THEN (IF word = <<>> THEN <<>> ELSE <<word>>)
    ELSE IF s[1] = Space
         THEN (IF word = <<>> THEN <<>> ELSE <<word>>) \o SplitFrom(Tail(s), <<>>)
         ELSE SplitFrom(Tail(s), Append(word, s[1]))

Split(s) == SplitFrom(s, <<>>)

Contains(s, c) == \E i \in 1..Len(s) : s[i] = c

(***************************************************************************)
(* Name transforms of IocMasterFile.read                                   *)
(***************************************************************************)
\* taxon['name'] = genus.title().strip('†').strip()
GenusName(genus) == Strip(StripChars(Title(genus), {Dagger}))

\* taxon['binomial_name'] = (genus + " " + species).strip('†').strip()
BinomialName(genus, species) ==
    Strip(StripChars(genus \o <<Space>> \o species, {Dagger}))

\* s = genus + " " + species + " " + subspecies
\* trinomial_name = s.strip('†').strip()
\* taxon['trinomial_name'] = trinomial_name.replace(" †", "")
TrinomialName(genus, species, subspecies) ==
    RemoveSpaceDagger(
        Strip(StripChars(genus \o <<Space>> \o species \o <<Space>> \o subspecies,
                         {Dagger})))

(***************************************************************************)
(* The taxonomy object IocWbl and the master rows                          *)
(***************************************************************************)
Ranks == <<"Infraclass", "Order", "Family", "Genus", "Species", "Subspecies">>

\* Position of a rank in the containment order (1 = Infraclass).
Depth(rank) == CHOOSE d \in 1..Len(Ranks) : Ranks[d] = rank

EmptyStats ==
    [infraclass_count |-> 0, order_count |-> 0, family_count |-> 0,
     genus_count |-> 0, species_count |-> 0, subspecies_count |-> 0]

\* StatsIncr with the Subspecies branch counting into species_count.
StatsIncrCopyPaste(st, rank) ==
    CASE rank = "Infraclass" -> [st EXCEPT !.infraclass_count = @ + 1]
      [] rank = "Order"      -> [st EXCEPT !.order_count = @ + 1]
      [] rank = "Family"     -> [st EXCEPT !.family_count = @ + 1]
      [] rank = "Genus"      -> [st EXCEPT !.genus_count = @ + 1]
      [] rank = "Species"    -> [st EXCEPT !.species_count = @ + 1]
      [] rank = "Subspecies" -> [st EXCEPT !.species_count = @ + 1]

\* self.iocwbl.stats['<rank>_count'] += 1
StatsIncr(st, rank) ==
    CASE rank = "Infraclass" -> [st EXCEPT !.infraclass_count = @ + 1]
      [] rank = "Order"      -> [st EXCEPT !.order_count = @ + 1]
      [] rank = "Family"     -> [st EXCEPT !.family_count = @ + 1]
      [] rank = "Genus"      -> [st EXCEPT !.genus_count = @ + 1]
      [] rank = "Species"    -> [st EXCEPT !.species_count = @ + 1]
      [] rank = "Subspecies" -> [st EXCEPT !.subspecies_count = @ + 1]

StatsOf(st, rank) ==
    CASE rank = "Infraclass" -> st.infraclass_count
      [] rank = "Order"      -> st.order_count
      [] rank = "Family"     -> st.family_count
      [] rank = "Genus"      -> st.genus_count
      [] rank = "Species"    -> st.species_count
      [] rank = "Subspecies" -> st.subspecies_count

\* count of print_taxonomy_info
TotalCount(st) ==
    st.infraclass_count + st.family_count + st.order_count
    + st.genus_count + st.species_count + st.subspecies_count

\* Columns of a master row, before the column shift.
ColInfraclass == 0
ColOrder == 1
ColFamily == 2
ColFamilyEn == 3
ColGenus == 4
ColSpecies == 5
ColSubspecies == 6
ColEn == 8
ColCode == 12
LastCol == 14

\* row[col + self.column_shift].value
Cell(r, col, shift) == r[col + shift]

\* RowRank with the Species test ahead of the Genus test.
RowRankSwapped(r, shift) ==
    IF r[ColInfraclass] # None THEN "Infraclass"
    ELSE IF Cell(r, ColOrder, shift) # None THEN "Order"
    ELSE IF Cell(r, ColFamily, shift) # None THEN "Family"
    ELSE IF Cell(r, ColSpecies, shift) # None THEN "Species"
    ELSE IF Cell(r, ColGenus, shift) # None THEN "Genus"
    ELSE IF Cell(r, ColSubspecies, shift) # None THEN "Subspecies"
    ELSE "none"

\* The first rank whose cell is truthy, in the order of the if/elif chain.
RowRank(r, shift) ==
    IF r[ColInfraclass] # None THEN "Infraclass"
    ELSE IF Cell(r, ColOrder, shift) # None THEN "Order"
    ELSE IF Cell(r, ColFamily, shift) # None THEN "Family"
    ELSE IF Cell(r, ColGenus, shift) # None THEN "Genus"
    ELSE IF Cell(r, ColSpecies, shift) # None THEN "Species"
    ELSE IF Cell(r, ColSubspecies, shift) # None THEN "Subspecies"
    ELSE "none"

Last(s) == s[Len(s)]

\* self.iocwbl.taxonomy[-1]['subtaxa'][-1]...['subtaxa'][-1] with d - 1
\* subtaxa steps: the taxon of depth d on the path of last children, or 0
\* where Python raises IndexError.
RECURSIVE ChainNode(_, _, _)
ChainNode(tx, top, d) ==
    IF d = 1 THEN (IF top = <<>> THEN 0 ELSE Last(top))
    ELSE LET p == ChainNode(tx, top, d - 1) IN
         IF p = 0 \/ tx[p].subtaxa = <<>> THEN 0 ELSE Last(tx[p].subtaxa)

\* ParentOf with taxonomy[0] in place of taxonomy[-1].
ParentOfFirstTop(tx, top, rank) ==
    ChainNode(tx, IF top = <<>> THEN top ELSE <<Head(top)>>, Depth(rank) - 1)

\* The taxon whose subtaxa list a new taxon of this rank is appended to.
ParentOf(tx, top, rank) == ChainNode(tx, top, Depth(rank) - 1)

\* self.iocwbl.index[key] = taxon: a dict keeps the place of a key it holds.
IndexHas(idx, key) == \E i \in 1..Len(idx) : idx[i].key = key
IndexGet(idx, key) == idx[CHOOSE i \in 1..Len(idx) : idx[i].key = key].taxon
IndexPut(idx, key, id) ==
    IF IndexHas(idx, key)
    THEN [i \in 1..Len(idx) |->
             IF idx[i].key = key THEN [key |-> key, taxon |-> id] ELSE idx[i]]
    ELSE Append(idx, [key |-> key, taxon |-> id])

\* SupertaxonName with one ['subtaxa'][-1] step too few below Order.
SupertaxonNameShort(tx, top, rank) ==
    tx[ChainNode(tx, top, IF Depth(rank) > 2 THEN Depth(rank) - 2 ELSE 1)].name

\* taxon['supertaxon'] = self.iocwbl.taxonomy[-1]['subtaxa'][-1]...['name']
SupertaxonName(tx, top, rank) == tx[ChainNode(tx, top, Depth(rank) - 1)].name

\* The taxon dict a row of the given rank creates.
NewTaxon(r, shift, rank, tx, top) ==
    LET base == [rank |-> rank, name |-> None, supertaxon |-> Absent,
                 binomial_name |-> Absent, trinomial_name |-> Absent,
                 subtaxa |-> <<>>,
                 common_names |-> [l \in {"en"} |-> Cell(r, ColEn, shift)],
                 code |-> Cell(r, ColCode, shift),
                 extinct |-> Absent, following_entries |-> Absent,
                 lists |-> Absent]
    IN CASE rank = "Infraclass" ->
              [base EXCEPT !.name = r[ColInfraclass]]
         [] rank = "Order" ->
              [base EXCEPT !.name = Cell(r, ColOrder, shift),
                           !.supertaxon = SupertaxonName(tx, top, rank)]
         [] rank = "Family" ->
              [base EXCEPT !.name = Cell(r, ColFamily, shift),
                           !.common_names =
                               [l \in {"en"} |-> Cell(r, ColFamilyEn, shift)],
                           !.supertaxon = SupertaxonName(tx, top, rank)]
         [] rank = "Genus" ->
              [base EXCEPT !.name = GenusName(Cell(r, ColGenus, shift)),
                           !.supertaxon = SupertaxonName(tx, top, rank)]
         [] rank = "Species" ->
              [base EXCEPT !.name = Cell(r, ColSpecies, shift),
                           !.supertaxon = SupertaxonName(tx, top, rank),
                           !.binomial_name =
                               BinomialName(SupertaxonName(tx, top, rank),
                                            Cell(r, ColSpecies, shift))]
         [] rank = "Subspecies" ->
              [base EXCEPT !.name = Cell(r, ColSubspecies, shift),
                           !.supertaxon = SupertaxonName(tx, top, rank),
                           !.trinomial_name =
                               TrinomialName(tx[ChainNode(tx, top, 4)].name,
                                             SupertaxonName(tx, top, rank),
                                             Cell(r, ColSubspecies, shift))]

\* The key under which read registers the taxon t it made from row r.
IndexKey(r, shift, t) ==
    CASE t.rank = "Genus"      -> Cell(r, ColGenus, shift)
      [] t.rank = "Species"    -> t.binomial_name
      [] t.rank = "Subspecies" -> t.trinomial_name
      [] OTHER                 -> t.name

(***************************************************************************)
(* The master rows the model reads                                         *)
(***************************************************************************)
\* A worksheet row whose rank cells hold i, o, f, g, s and ss at the columns
\* of the file's layout.  A file read with column shift 1 has one more
\* column, at position 1, which read never looks at.
MkRow(shift, i, o, f, g, s, ss) ==
    [c \in 0..LastCol |->
        CASE c = ColInfraclass         -> i
          [] c = ColOrder + shift      -> o
          [] c = ColFamily + shift     -> f
          [] c = ColFamilyEn + shift   -> IF f = None THEN None ELSE <<"f", "e">>
          [] c = ColGenus + shift      -> g
          [] c = ColSpecies + shift    -> s
          [] c = ColSubspecies + shift -> ss
          [] c = ColEn + shift         -> <<"e">>
          [] c = ColCode + shift       -> <<"k">>
          [] c = 1 /\ shift = 1        -> <<"x">>
          [] OTHER                     -> None]

\* The row whose only filled rank cell is that of depth d.
RowOfRank(shift, d, cell) ==
    MkRow(shift, IF d = 1 THEN cell ELSE None, IF d = 2 THEN cell ELSE None,
                 IF d = 3 THEN cell ELSE None, IF d = 4 THEN cell ELSE None,
                 IF d = 5 THEN cell ELSE None, IF d = 6 THEN cell ELSE None)

InfraclassCells == {<<"N">>}
OrderCells == {<<"O">>}
FamilyCells == {<<"F">>}
GenusCells == {<<"A", "b">>, <<"a", "b", Dagger>>}
SpeciesCells == {<<"c">>}
SubspeciesCells == {<<"d">>}

CellsOf(rank) ==
    CASE rank = "Infraclass" -> InfraclassCells
      [] rank = "Order"      -> OrderCells
      [] rank = "Family"     -> FamilyCells
      [] rank = "Genus"      -> GenusCells
      [] rank = "Species"    -> SpeciesCells
      [] rank = "Subspecies" -> SubspeciesCells

\* Rows with one rank cell filled, and the row with none.
SingleRows(shift) ==
    {MkRow(shift, i, None, None, None, None, None) : i \in InfraclassCells}
    \cup {MkRow(shift, None, o, None, None, None, None) : o \in OrderCells}
    \cup {MkRow(shift, None, None, f, None, None, None) : f \in FamilyCells}
    \cup {MkRow(shift, None, None, None, g, None, None) : g \in GenusCells}
    \cup {MkRow(shift, None, None, None, None, s, None) : s \in SpeciesCells}
    \cup {MkRow(shift, None, None, None, None, None, ss) : ss \in SubspeciesCells}
    \cup {MkRow(shift, None, None, None, None, None, None)}

\* Rows with two rank cells filled.
FirstCell(rank) == CHOOSE c \in CellsOf(rank) : TRUE
PairCell(rank, a, b) == IF rank \in {a, b} THEN FirstCell(rank) ELSE None
DoubleRows(shift) ==
    {MkRow(shift, PairCell("Infraclass", Ranks[a], Ranks[b]),
                  PairCell("Order", Ranks[a], Ranks[b]),
                  PairCell("Family", Ranks[a], Ranks[b]),
                  PairCell("Genus", Ranks[a], Ranks[b]),
                  PairCell("Species", Ranks[a], Ranks[b]),
                  PairCell("Subspecies", Ranks[a], Ranks[b])) :
        <<a, b>> \in {p \in (1..6) \X (1..6) : p[1] < p[2]}}

MasterRows(shift) == SingleRows(shift) \cup DoubleRows(shift)

(***************************************************************************)
(* IocMasterFile.read, one row per step                                    *)
(***************************************************************************)
BlankRow == [c \in 0..LastCol |-> None]

\* IocWbl.__init__ with dirpath None
EmptyWbl ==
    [taxa |-> <<>>, taxonomy |-> <<>>, index |-> <<>>, stats |-> EmptyStats,
     err |-> "none"]

\* The body of the loop of read for the row r, on the taxonomy object w.
\* Every branch below Infraclass reads the name of the parent on the path of
\* last children before it changes anything, so an IndexError leaves the
\* taxonomy as it was.
MasterStep(w, shift, r) ==
    LET rank == RowRank(r, shift)
        p == IF rank \in {"none", "Infraclass"} THEN 0
             ELSE ParentOf(w.taxa, w.taxonomy, rank)
        id == Len(w.taxa) + 1
    IN IF rank = "none" THEN w
       ELSE IF rank # "Infraclass" /\ p = 0
       THEN [w EXCEPT !.err = "IndexError"]
       ELSE LET t == NewTaxon(r, shift, rank, w.taxa, w.taxonomy) IN
            [taxa |-> IF rank = "Infraclass"
                      THEN Append(w.taxa, t)
                      ELSE Append([w.taxa EXCEPT ![p].subtaxa = Append(@, id)], t),
             taxonomy |-> IF rank = "Infraclass"
                          THEN Append(w.taxonomy, id)
                          ELSE w.taxonomy,
             index |-> IndexPut(w.index, IndexKey(r, shift, t), id),
             stats |-> StatsIncr(w.stats, rank),
             err |-> "none"]

\* read over a whole worksheet; it stops at the first exception.
RECURSIVE MasterRead(_, _, _)
MasterRead(w, shift, rows) ==
    IF rows = <<>> \/ w.err # "none" THEN w
    ELSE MasterRead(MasterStep(w, shift, Head(rows)), shift, Tail(rows))

Wbl == [taxa |-> taxa, taxonomy |-> taxonomy, index |-> index, stats |-> stats,
        err |-> err]

\* The directories handle_files may write to, as values of output_dir; the
\* directory itself is os.path.join(output_dir, DEFAULT_IOC_TAXONOMY_DIR).
DEFAULT_DATA_DIR == "./gendata"
OutputDirs == {DEFAULT_DATA_DIR, "out"}

\* A directory that does not exist, and a file system without directories.
NoDir == [exists |-> FALSE, files |-> <<>>]

\* The directory ts-ioc.py of src/src writes to and loads from.
DEFAULT_IOC_DIR == "./data-ioc"
AllDirs == OutputDirs \cup {DEFAULT_IOC_DIR}
EmptyFs == [d \in AllDirs |-> NoDir]

\* Before the output stage of handle_files and outside sorted_ioc_files the
\* state below is not in use.
\* The locals of the three-row loop before its first row: i is 0, name and
\* entry are unbound, and no row has been read.
NoCycle == [i |-> 0, name |-> None, entry |-> <<>>, read |-> <<>>]

OutIdle ==
    /\ sheet = <<>>
    /\ versions = <<>>
    /\ opts = [write |-> FALSE, dry_run |-> FALSE, info |-> FALSE, verbose |-> FALSE,
               output_dir |-> DEFAULT_DATA_DIR]
    /\ fs = EmptyFs
    /\ loaded = EmptyWbl
    /\ batch = <<>>
    /\ result = <<>>
    /\ stdout = <<>>
    /\ written = <<>>
    /\ cycle = NoCycle

Init ==
    /\ pc = "master"
    /\ column_shift \in {0, 1}
    /\ rownum = 0
    /\ row = BlankRow
    /\ taxa = <<>>
    /\ taxonomy = <<>>
    /\ index = <<>>
    /\ stats = EmptyStats
    /\ err = "none"
    /\ multi = <<>>
    /\ comp = <<>>
    /\ other = <<>>
    /\ OutIdle

\* One turn of the loop of read, the row drawn from rows.
ReadRowFrom(rows) ==
    /\ pc = "master"
    /\ err = "none"
    /\ rownum < MaxRows
    /\ \E r \in rows :
          LET w == MasterStep(Wbl, column_shift, r) IN
          /\ row' = r
          /\ rownum' = rownum + 1
          /\ taxa' = w.taxa
          /\ taxonomy' = w.taxonomy
          /\ index' = w.index
          /\ stats' = w.stats
          /\ err' = w.err
    /\ UNCHANGED <<pc, column_shift, multi, comp, other>>
    /\ UNCHANGED outVars

ReadRow == ReadRowFrom(MasterRows(column_shift))

\* The worksheet has no more rows: read returns, and its loop variable is gone.
FinishMaster ==
    /\ pc = "master"
    /\ err = "none"
    /\ pc' = "otherlists"
    /\ rownum' = 0
    /\ row' = BlankRow
    /\ UNCHANGED <<column_shift, taxa, taxonomy, index, stats, err, multi, comp, other>>
    /\ UNCHANGED outVars

(***************************************************************************)
(* IocMultilingualFile.read and _add_languages                             *)
(***************************************************************************)
\* The language keys of an entry, each with the column its value is read from.
OldLayoutRow1 ==
    <<<<"cat", 6>>, <<"cze", 9>>, <<"est", 12>>, <<"ger", 15>>, <<"ind", 18>>,
      <<"lav", 21>>, <<"pol", 24>>, <<"slo", 27>>, <<"swe", 30>>>>

OldLayoutRow2 ==
    <<<<"eng", 4>>, <<"chi", 7>>, <<"dan", 10>>, <<"fin", 13>>, <<"hun", 16>>,
      <<"ita", 19>>, <<"lit", 22>>, <<"por", 25>>, <<"slv", 28>>>>

OldLayoutRow3 ==
    <<<<"lzh", 8>>, <<"dut", 11>>, <<"fre", 14>>, <<"ice", 17>>, <<"jpn", 20>>,
      <<"nno", 23>>, <<"rus", 26>>, <<"spa", 29>>>>

NewLayout ==
    <<<<"en", 4>>, <<"ca", 5>>, <<"zh-Hans", 6>>, <<"zh-Hant", 7>>, <<"hr", 8>>,
      <<"cs", 9>>, <<"da", 10>>, <<"nl", 11>>, <<"fi", 12>>, <<"fr", 13>>,
      <<"de", 14>>, <<"it", 15>>, <<"ja", 16>>, <<"lt", 17>>, <<"no", 18>>,
      <<"pl", 19>>, <<"pt-br", 20>>, <<"pt", 21>>, <<"ru", 22>>, <<"sr", 23>>,
      <<"sk", 24>>, <<"es", 25>>, <<"sv", 26>>, <<"tr", 27>>, <<"uk", 28>>,
      <<"af", 29>>, <<"ar", 30>>, <<"be", 31>>, <<"bg", 32>>, <<"et", 33>>,
      <<"el", 34>>, <<"he", 35>>, <<"hu", 36>>, <<"is", 37>>, <<"id", 38>>,
      <<"ko", 39>>, <<"lv", 40>>, <<"mk", 41>>, <<"ml", 42>>, <<"se", 43>>,
      <<"fa", 44>>, <<"ro", 45>>, <<"sl", 46>>, <<"th", 47>>>>

ColMultiName == 3
LastMultiCol == 47

Keys(layout) == {layout[i][1] : i \in 1..Len(layout)}
ColOf(layout, key) == layout[CHOOSE i \in 1..Len(layout) : layout[i][1] = key][2]

\* The dict {key: row[col].value, ...} of one layout table.
LangFields(layout, r) == [k \in Keys(layout) |-> r[ColOf(layout, k)]]

\* dict.update: the keys of both, the value of new where it has the key.
DictUpdate(old, new) ==
    [k \in (DOMAIN old) \cup (DOMAIN new) |->
        IF k \in DOMAIN new THEN new[k] ELSE old[k]]

\* self.taxonomy[name] = entry
DictPut(table, key, entry) ==
    [k \in (DOMAIN table) \cup {key} |-> IF k = key THEN entry ELSE table[k]]

\* if row[3].value and len(row[3].value.split()) == 2
SpeciesNameRow(r) == r[ColMultiName] # None /\ Len(Split(r[ColMultiName])) = 2

\* The locals of the loop of read for versions 7.3 and 8.1 and the table.
LoopState(i, name, entry, table) ==
    [i |-> i, name |-> name, entry |-> entry, table |-> table]

\* OldLayoutStep without the restart: a row with a species name met inside a
\* cycle is taken as a row of that cycle.
OldLayoutStepNoRestart(i, name, entry, table, r) ==
    IF SpeciesNameRow(r) /\ i = 0
    THEN LoopState(1, r[ColMultiName], LangFields(OldLayoutRow1, r), table)
    ELSE IF i = 1
    THEN LoopState(2, name, DictUpdate(entry, LangFields(OldLayoutRow2, r)), table)
    ELSE IF i = 2
    THEN LET e == DictUpdate(entry, LangFields(OldLayoutRow3, r)) IN
         LoopState(0, name, e, DictPut(table, name, e))
    ELSE LoopState(i, name, entry, table)

\* The body of the loop of read for versions 7.3 and 8.1, three rows per
\* species, on the row r.  i is the place in the cycle, name and entry are
\* the locals of the loop.
OldLayoutStep(i, name, entry, table, r) ==
    IF SpeciesNameRow(r)
    THEN LoopState(1, r[ColMultiName], LangFields(OldLayoutRow1, r), table)
    ELSE IF i = 1
    THEN LoopState(2, name, DictUpdate(entry, LangFields(OldLayoutRow2, r)), table)
    ELSE IF i = 2
    THEN LET e == DictUpdate(entry, LangFields(OldLayoutRow3, r)) IN
         LoopState(0, name, e, DictPut(table, name, e))
    ELSE LoopState(i, name, entry, table)

\* The loop of read for versions 7.3 and 8.1.
RECURSIVE ReadOldLayout(_, _, _, _, _)
ReadOldLayout(rows, i, name, entry, table) ==
    IF rows = <<>> THEN table
    ELSE LET s == OldLayoutStep(i, name, entry, table, Head(rows)) IN
         ReadOldLayout(Tail(rows), s.i, s.name, s.entry, s.table)

\* The loop of read for the later versions: one row per name.
RECURSIVE ReadNewLayout(_, _)
ReadNewLayout(rows, table) ==
    IF rows = <<>> THEN table
    ELSE LET r == Head(rows) IN
         ReadNewLayout(Tail(rows),
                       DictPut(table, r[ColMultiName], LangFields(NewLayout, r)))

MultiTable(version, rows) ==
    IF version \in {"8.1", "7.3"}
    THEN ReadOldLayout(rows, 0, None, <<>>, <<>>)
    ELSE ReadNewLayout(rows, <<>>)

\* MergeNames with an assignment in place of dict.update.
MergeNamesReplace(old, entry) == entry

\* self.iocwbl.index[name]["common_names"].update(self.taxonomy[name])
MergeNames(old, entry) == DictUpdate(old, entry)

\* _add_languages: for name in iter(self.iocwbl.index): if name in self.taxonomy
AddLanguages(tx, idx, table) ==
    [n \in 1..Len(tx) |->
        IF \E i \in 1..Len(idx) : idx[i].taxon = n /\ idx[i].key \in DOMAIN table
        THEN LET i == CHOOSE j \in 1..Len(idx) :
                          idx[j].taxon = n /\ idx[j].key \in DOMAIN table
             IN [tx[n] EXCEPT !.common_names = MergeNames(@, table[idx[i].key])]
        ELSE tx[n]]

\* The rows of a multilingual worksheet the model reads: a name cell and one
\* text in every language column.
MultiRow(name, v) == [c \in 0..LastMultiCol |-> IF c = ColMultiName THEN name ELSE v]

MultiNameCells == {None, <<"O">>, <<"A", "b", Space, "c">>}
MultiRows == {MultiRow(n, <<"u">>) : n \in MultiNameCells}

MultiVersions == {"7.3", "8.1", "14.1"}

SeqsUpTo(S, n) == UNION {[1..k -> S] : k \in 0..n}

ReadMultilingual ==
    /\ pc = "multilingual"
    /\ err = "none"
    /\ \E version \in MultiVersions, rows \in SeqsUpTo(MultiRows, MaxMultiRows) :
          /\ multi' = MultiTable(version, rows)
          /\ taxa' = AddLanguages(taxa, index, multi')
    /\ pc' = "complementary"
    /\ UNCHANGED <<column_shift, rownum, row, taxonomy, index, stats, err, comp, other>>
    /\ UNCHANGED outVars

\* filepaths["multilingual-file"] is None
SkipMultilingual ==
    /\ pc = "multilingual"
    /\ err = "none"
    /\ pc' = "complementary"
    /\ UNCHANGED <<column_shift, rownum, row, taxa, taxonomy, index, stats, err,
                   multi, comp, other>>
    /\ UNCHANGED outVars

(***************************************************************************)
(* IocOtherListsFile.read and _add_other_lists                             *)
(***************************************************************************)
ColOtherName == 1
LastOtherCol == 32

\* The alternate checklists of an entry, each with the columns of its name,
\* group and family (0 where the entry holds None).
OtherListsLayout ==
    <<<<"clements_2016", 5, 4, 18>>, <<"hbwbl_2016", 7, 6, 19>>,
      <<"hm4_4ed", 9, 8, 20>>, <<"hbw_2013", 10, 0, 21>>,
      <<"peters_1986", 11, 0, 22>>, <<"boyd", 12, 0, 23>>,
      <<"hbwbl_2017", 13, 0, 24>>, <<"sibley_1993", 14, 0, 25>>,
      <<"ioc_7_2", 15, 0, 26>>, <<"ioc_7_1", 16, 0, 27>>>>

OtherLists(r) ==
    [k \in Keys(OtherListsLayout) |->
        LET l == OtherListsLayout[CHOOSE i \in 1..Len(OtherListsLayout) :
                                      OtherListsLayout[i][1] = k]
        IN [name |-> r[l[2]], group |-> IF l[3] = 0 THEN None ELSE r[l[3]],
            family |-> r[l[4]]]]

\* The dict entry made of a row.
OtherEntry(r) ==
    [seq_no |-> r[0], name |-> r[ColOtherName], rank |-> r[2], notes |-> r[3],
     iucn_red_list_category |-> r[LastOtherCol], following_entries |-> <<>>,
     lists |-> OtherLists(r)]

\* The attributes of an IocOtherListsFile after __init__, which sets neither
\* taxonomy nor nonindexed.
OtherListsFile == [taxonomy_stats |-> <<>>]

\* The attributes after __init__ of the earlier revision of the class, which
\* sets taxonomy and nonindexed too.
EarlierOtherListsFile ==
    [taxonomy_stats |-> <<>>, taxonomy |-> <<>>, nonindexed |-> <<>>]

\* The loop of read on the file object f.  latest_name is the local the
\* branch of a named row sets (Absent while it is unbound).
RECURSIVE ReadOtherRows(_, _, _)
ReadOtherRows(rows, latest_name, f) ==
    IF rows = <<>> THEN [file |-> f, err |-> "none"]
    ELSE LET r == Head(rows)
             name == r[ColOtherName]
             entry == OtherEntry(r)
         IN IF name # None
            THEN IF "taxonomy" \notin DOMAIN f
                 THEN [file |-> f, err |-> "AttributeError"]
                 ELSE ReadOtherRows(Tail(rows), name,
                        [f EXCEPT !.taxonomy = DictPut(@, name, entry)])
            ELSE IF "nonindexed" \notin DOMAIN f
                 THEN [file |-> f, err |-> "AttributeError"]
                 ELSE IF latest_name = Absent
                 THEN [file |-> [f EXCEPT !.nonindexed = Append(@, entry)],
                       err |-> "UnboundLocalError"]
                 ELSE ReadOtherRows(Tail(rows), latest_name,
                        [f EXCEPT
                           !.nonindexed = Append(@, entry),
                           !.taxonomy[latest_name].following_entries =
                               Append(@, entry)])

\* _add_other_lists: for name in iter(self.iocwbl.index): if name in self.taxonomy
AddOtherLists(tx, idx, table) ==
    [n \in 1..Len(tx) |->
        IF \E i \in 1..Len(idx) : idx[i].taxon = n /\ idx[i].key \in DOMAIN table
        THEN LET i == CHOOSE j \in 1..Len(idx) :
                          idx[j].taxon = n /\ idx[j].key \in DOMAIN table
             IN [tx[n] EXCEPT
                   !.following_entries = table[idx[i].key].following_entries,
                   !.lists = table[idx[i].key].lists]
        ELSE tx[n]]

\* The rows of an Other Lists worksheet the model reads: a name cell and one
\* text in every other column; the rows without a name come with two texts.
OtherRow(name, v) == [c \in 0..LastOtherCol |-> IF c = ColOtherName THEN name ELSE v]

OtherNameCells == {None, <<"A", "b", Space, "c">>, <<"A", "b", Space, "c", Space, "d">>}
OtherRows ==
    {OtherRow(n, <<"v">>) : n \in OtherNameCells} \cup {OtherRow(None, <<"w">>)}

\* other_lists_file.read(): read does not call _add_other_lists.
ReadOtherLists ==
    /\ pc = "otherlists"
    /\ err = "none"
    /\ \E rows \in SeqsUpTo(OtherRows, MaxOtherRows) :
          LET rd == ReadOtherRows(rows, Absent, OtherListsFile) IN
          /\ other' = rows
          /\ err' = rd.err
          /\ pc' = IF rd.err = "none" THEN "multilingual" ELSE pc
    /\ UNCHANGED <<column_shift, rownum, row, taxa, taxonomy, index, stats,
                   multi, comp>>
    /\ UNCHANGED outVars

\* filepaths["other-lists-file"] is None
SkipOtherLists ==
    /\ pc = "otherlists"
    /\ err = "none"
    /\ pc' = "multilingual"
    /\ UNCHANGED <<column_shift, rownum, row, taxa, taxonomy, index, stats, err,
                   multi, comp, other>>
    /\ UNCHANGED outVars

(***************************************************************************)
(* IocComplementaryFile.read and _add_complementary_info                   *)
(***************************************************************************)
KindBlank == <<"B", "l", "a", "n", "k">>
KindOrder == <<"O", "R", "D", "E", "R">>
KindFamily == <<"F", "a", "m", "i", "l", "y">>
KindGenus == <<"G", "e", "n", "u", "s">>
KindSpecies == <<"S", "p", "e", "c", "i", "e", "s">>
KindSsp == <<"s", "s", "p">>

LastCompCol == 10

\* A key of self.taxonomy: a str, or the one-element tuple the ORDER branch
\* builds (name = row[5].value.split()[1],).
StrKey(s) == [tuple |-> FALSE, s |-> s]
TupleKey(s) == [tuple |-> TRUE, s |-> s]

\* name in self.taxonomy, for a key of the index (a str).
InComp(table, name) == StrKey(name) \in DOMAIN table

\* The exception row[5].value.split()[n] raises, or "none" (n counts from 0).
SplitError(cell, n) ==
    IF cell = None THEN "AttributeError"
    ELSE IF Len(Split(cell)) <= n THEN "IndexError"
    ELSE "none"

\* The loop of read.  species is the local the Species branch sets (Absent
\* while it is unbound); the result holds the table built so far and the
\* exception that ended the loop.
RECURSIVE ReadCompRows(_, _, _)
ReadCompRows(rows, species, table) ==
    IF rows = <<>> THEN [table |-> table, err |-> "none"]
    ELSE LET r == Head(rows) IN
      IF r[1] = KindBlank
      THEN ReadCompRows(Tail(rows), species,
             DictPut(table, StrKey(r[5]),
                     [name |-> r[5], rank |-> "Infraclass",
                      code |-> r[9], comment |-> r[10]]))
      ELSE IF r[1] = KindOrder
      THEN IF SplitError(r[5], 1) # "none"
           THEN [table |-> table, err |-> SplitError(r[5], 1)]
           ELSE ReadCompRows(Tail(rows), species,
                  DictPut(table, TupleKey(Split(r[5])[2]),
                          [name |-> TupleKey(Split(r[5])[2]), rank |-> "Order",
                           code |-> r[9], comment |-> r[10]]))
      ELSE IF r[1] = KindFamily
      THEN IF SplitError(r[5], 1) # "none"
           THEN [table |-> table, err |-> SplitError(r[5], 1)]
           ELSE ReadCompRows(Tail(rows), species,
                  DictPut(table, StrKey(Split(r[5])[2]),
                          [species_count |-> r[2], name_eng |-> r[3],
                           name |-> Split(r[5])[2], rank |-> "Family",
                           code |-> r[9], comment |-> r[10]]))
      ELSE IF r[1] = KindGenus
      THEN ReadCompRows(Tail(rows), species,
             DictPut(table, StrKey(r[5]),
                     [extinct |-> r[2], name |-> r[5], rank |-> "Genus",
                      authority |-> r[6], code |-> r[9], comment |-> r[10]]))
      ELSE IF r[1] = KindSpecies
      THEN ReadCompRows(Tail(rows), r[6],
             DictPut(table, StrKey(r[5]),
                     [extinct |-> r[2], name |-> r[5], rank |-> "Species",
                      name_eng |-> r[3], authority |-> r[6],
                      breeding_range |-> r[7], nonbreeding_range |-> r[8],
                      code |-> r[9], comment |-> r[10]]))
      ELSE IF r[2] = KindSsp
      THEN IF species = Absent
           THEN [table |-> table, err |-> "UnboundLocalError"]
           ELSE IF species = None
           THEN [table |-> table, err |-> "TypeError"]
           ELSE IF SplitError(r[5], 2) # "none"
           THEN [table |-> table, err |-> SplitError(r[5], 2)]
           ELSE LET name == species \o <<Space>> \o Split(r[5])[3] IN
                ReadCompRows(Tail(rows), species,
                  DictPut(table, StrKey(name),
                          [extinct |-> r[2], name |-> name, rank |-> "Subspecies",
                           name_eng |-> r[3], authority |-> r[6],
                           breeding_range |-> r[7], nonbreeding_range |-> r[8],
                           code |-> r[9], comment |-> r[10]]))
      ELSE ReadCompRows(Tail(rows), species, table)

RelevantRanks == {"Genus", "Species", "Subspecies"}

\* if name in self.taxonomy and self.iocwbl.index[name]["rank"] in relevant_ranks
CompGuard(tx, idx, i, table) ==
    InComp(table, idx[i].key) /\ tx[idx[i].taxon].rank \in RelevantRanks

\* _add_complementary_info from the i-th key of the index on.  Reading
\* self.taxonomy[name]["extinct"] of an entry without that key raises KeyError
\* and leaves the taxa merged so far as they are.
RECURSIVE AddComplementaryInfo(_, _, _, _)
AddComplementaryInfo(tx, idx, i, table) ==
    IF i > Len(idx) THEN [taxa |-> tx, err |-> "none"]
    ELSE IF CompGuard(tx, idx, i, table)
    THEN LET e == table[StrKey(idx[i].key)] IN
         IF "extinct" \notin DOMAIN e
         THEN [taxa |-> tx, err |-> "KeyError"]
         ELSE AddComplementaryInfo(
                [tx EXCEPT ![idx[i].taxon].extinct = e.extinct,
                           ![idx[i].taxon].code = e.code],
                idx, i + 1, table)
    ELSE AddComplementaryInfo(tx, idx, i + 1, table)

\* The rows of a complementary worksheet the model reads.
CompRow(c1, c2, c5, c6) ==
    [c \in 0..LastCompCol |->
        CASE c = 1 -> c1
          [] c = 2 -> c2
          [] c = 5 -> c5
          [] c = 6 -> c6
          [] c = 9 -> <<"q">>
          [] OTHER -> None]

CompRows ==
    {CompRow(KindBlank, None, <<"N">>, None),
     CompRow(KindOrder, None, KindOrder \o <<Space, "O">>, None),
     CompRow(KindFamily, None, KindFamily \o <<Space, "F">>, None),
     CompRow(KindFamily, None, KindFamily \o <<Space, "A", "b">>, None),
     CompRow(KindGenus, <<Dagger>>, <<"A", "b">>, None),
     CompRow(KindSpecies, None, <<"A", "b", Space, "c">>, <<"A", "b", Space, "c">>),
     CompRow(None, KindSsp, <<"A", "b", Space, "c", Space, "d">>, None)}

ReadComplementary ==
    /\ pc = "complementary"
    /\ err = "none"
    /\ \E rows \in SeqsUpTo(CompRows, MaxCompRows) :
          LET rd == ReadCompRows(rows, Absent, <<>>)
              mg == AddComplementaryInfo(taxa, index, 1, rd.table)
          IN /\ comp' = rd.table
             /\ IF rd.err # "none"
                THEN err' = rd.err /\ taxa' = taxa /\ pc' = pc
                ELSE err' = mg.err /\ taxa' = mg.taxa
                     /\ pc' = IF mg.err = "none" THEN "done" ELSE pc
    /\ UNCHANGED <<column_shift, rownum, row, taxonomy, index, stats, multi, other>>
    /\ UNCHANGED outVars

\* filepaths["complimentary-file"] is None
SkipComplementary ==
    /\ pc = "complementary"
    /\ err = "none"
    /\ pc' = "done"
    /\ UNCHANGED <<column_shift, rownum, row, taxa, taxonomy, index, stats, err,
                   multi, comp, other>>
    /\ UNCHANGED outVars

(***************************************************************************)
(* IocWbl.write_to_files and IocWbl.load_taxonomy                          *)
(***************************************************************************)
VERSION_FILE_NAME == <<"v", "e", "r", "s", "i", "o", "n", ".", "j", "s", "o", "n">>
DotJson == <<".", "j", "s", "o", "n">>

\* str.replace(" ", "_")
ReplaceSpaces(s) == [i \in 1..Len(s) |-> IF s[i] = Space THEN "_" ELSE s[i]]

\* fname of _write_taxon_to_file
FileName(t) ==
    IF t.rank = "Species" THEN ReplaceSpaces(t.binomial_name) \o DotJson
    ELSE IF t.rank = "Subspecies" THEN ReplaceSpaces(t.trinomial_name) \o DotJson
    ELSE t.name \o DotJson

\* json.dumps(taxon) and json.load(f): the taxon dicts hold str, None, list
\* and dict values with str keys only, which JSON text gives back as they
\* were, so the text of a file is modelled by the dict it encodes; a key the
\* dict lacks holds Absent here as in the taxon.

\* _write_taxon_to_file: the files of the subtaxa first, then taxon['subtaxa']
\* is overwritten with their file names and the taxon is written.  The
\* result holds the taxa after the call, the files of the directory and the
\* names of the files in the order they were opened for writing.
RECURSIVE WriteTaxonToFile(_, _, _)
RECURSIVE WriteTaxaToFiles(_, _, _)
WriteTaxaToFiles(tx, files, list) ==
    IF list = <<>> THEN [taxa |-> tx, files |-> files, order |-> <<>>]
    ELSE LET w == WriteTaxonToFile(tx, files, Head(list))
             v == WriteTaxaToFiles(w.taxa, w.files, Tail(list))
         IN [v EXCEPT !.order = w.order \o @]

\* An entry of the order of the writes: the name of the file and the taxon
\* it is the file of (0: the version file).
Opened(name, id) == [name |-> name, taxon |-> id]

\* _write_taxon_to_file with the file of the taxon opened before the calls
\* for its subtaxa.
WriteTaxonToFileParentFirst(tx, files, id) ==
    LET w == WriteTaxaToFiles(tx, files, tx[id].subtaxa)
        subtaxa_files ==
            [k \in 1..Len(tx[id].subtaxa) |-> FileName(w.taxa[tx[id].subtaxa[k]])]
        t == [w.taxa[id] EXCEPT !.subtaxa = subtaxa_files]
    IN [taxa |-> [w.taxa EXCEPT ![id] = t],
        files |-> DictPut(w.files, FileName(t), t),
        order |-> <<Opened(FileName(t), id)>> \o w.order]

WriteTaxonToFile(tx, files, id) ==
    LET w == WriteTaxaToFiles(tx, files, tx[id].subtaxa)
        subtaxa_files ==
            [k \in 1..Len(tx[id].subtaxa) |-> FileName(w.taxa[tx[id].subtaxa[k]])]
        t == [w.taxa[id] EXCEPT !.subtaxa = subtaxa_files]
    IN [taxa |-> [w.taxa EXCEPT ![id] = t],
        files |-> DictPut(w.files, FileName(t), t),
        order |-> Append(w.order, Opened(FileName(t), id))]

\* write_to_files on a Wbl whose version is version: the version file, then
\* the top-level taxa in order.
WriteToFiles(tx, top, version, files) ==
    LET w == WriteTaxaToFiles(tx, DictPut(files, VERSION_FILE_NAME,
                                          [version |-> version]), top)
    IN [w EXCEPT !.order = <<Opened(VERSION_FILE_NAME, 0)>> \o @]

\* The order of the characters in a file name listing.
CharOrder ==
    <<Space, ".", "A", "B", "C", "D", "F", "N", "O", "_", "a", "b", "c", "d",
      "e", "f", "i", "j", "n", "o", "r", "s", "v", Dagger>>

Code(c) == CHOOSE i \in 1..Len(CharOrder) : CharOrder[i] = c

RECURSIVE LexLess(_, _)
LexLess(a, b) ==
    IF b = <<>> THEN FALSE
    ELSE IF a = <<>> THEN TRUE
    ELSE IF Code(a[1]) # Code(b[1]) THEN Code(a[1]) < Code(b[1])
    ELSE LexLess(Tail(a), Tail(b))

\* The file names of a set in the order the shell expands *.json to.
RECURSIVE SortedNames(_)
SortedNames(S) ==
    IF S = {} THEN <<>>
    ELSE LET m == CHOOSE x \in S : \A y \in S \ {x} : LexLess(x, y) IN
         <<m>> \o SortedNames(S \ {m})

\* grep -l '"rank": "Infraclass"' dirpath/*.json, split into file names (the
\* names of the model hold no whitespace).
InfraclassFiles(files) ==
    SortedNames({f \in DOMAIN files :
                    "rank" \in DOMAIN files[f] /\ files[f].rank = "Infraclass"})

\* The field under which a taxon is registered in the index by its rank.
CanonicalName(t) ==
    CASE t.rank = "Species"    -> t.binomial_name
      [] t.rank = "Subspecies" -> t.trinomial_name
      [] OTHER                 -> t.name

\* _load_subtaxa from the i-th entry of taxon['subtaxa'] on, taxon being the
\* taxon id of the Wbl w.
RECURSIVE LoadSubtaxa(_, _, _, _)
LoadSubtaxa(w, files, id, i) ==
    IF w.err # "none" \/ i > Len(w.taxa[id].subtaxa) THEN w
    ELSE LET name == w.taxa[id].subtaxa[i] IN
         IF name \notin DOMAIN files THEN [w EXCEPT !.err = "FileNotFoundError"]
         ELSE LET t == files[name]
                  n == Len(w.taxa) + 1
                  w1 == [w EXCEPT
                           !.taxa = Append([@ EXCEPT ![id].subtaxa[i] = n], t),
                           !.index = IF t.rank = "Infraclass" THEN @
                                     ELSE IndexPut(@, CanonicalName(t), n),
                           !.stats = IF t.rank = "Infraclass" THEN @
                                     ELSE StatsIncr(@, t.rank)]
              IN LoadSubtaxa(LoadSubtaxa(w1, files, n, 1), files, id, i + 1)

\* The loop of load_taxonomy over the file names grep found.
RECURSIVE LoadInfraclasses(_, _, _)
LoadInfraclasses(w, files, filenames) ==
    IF w.err # "none" \/ filenames = <<>> THEN w
    ELSE LET t == files[Head(filenames)]
             n == Len(w.taxa) + 1
             w1 == [w EXCEPT !.taxa = Append(@, t),
                             !.index = IndexPut(@, t.name, n),
                             !.taxonomy = Append(@, n)]
             w2 == LoadSubtaxa(w1, files, n, 1)
         IN LoadInfraclasses(
                IF w2.err # "none" THEN w2
                ELSE [w2 EXCEPT !.stats = StatsIncr(@, "Infraclass")],
                files, Tail(filenames))

\* IocWbl(dirpath) for the directory of output_dir d: load_taxonomy reads the
\* version file of the default directory, whatever dirpath is.
LoadTaxonomy(fsys, d) ==
    IF ~fsys[d].exists THEN [EmptyWbl EXCEPT !.err = "IocWblDirectoryNotFound"]
    ELSE IF \/ ~fsys[DEFAULT_DATA_DIR].exists
            \/ VERSION_FILE_NAME \notin DOMAIN fsys[DEFAULT_DATA_DIR].files
    THEN [EmptyWbl EXCEPT !.err = "FileNotFoundError"]
    ELSE LoadInfraclasses(EmptyWbl, fsys[d].files, InfraclassFiles(fsys[d].files))
         @@ [version |-> fsys[DEFAULT_DATA_DIR].files[VERSION_FILE_NAME].version]

Next == ReadRow \/ FinishMaster

Spec == Init /\ [][Next]_vars

(***************************************************************************)
(* Properties of the master builder                                        *)
(***************************************************************************)
Range(f) == {f[i] : i \in DOMAIN f}
Min(S) == CHOOSE x \in S : \A y \in S : x <= y
Max(S) == CHOOSE x \in S : \A y \in S : x >= y

\* The number of taxa met walking the subtaxa lists from the list given; with
\* a rank, the number of those of that rank.
RECURSIVE WalkCount(_, _, _)
WalkCount(tx, list, ranks) ==
    IF list = <<>> THEN 0
    ELSE (IF tx[Head(list)].rank \in ranks THEN 1 ELSE 0)
         + WalkCount(tx, tx[Head(list)].subtaxa, ranks)
         + WalkCount(tx, Tail(list), ranks)

AllRanks == Range(Ranks)

RECURSIVE SumStats(_, _)
SumStats(st, d) == IF d = 0 THEN 0 ELSE StatsOf(st, Ranks[d]) + SumStats(st, d - 1)

\* C1: at every point of a read of master rows the number of taxa in the tree,
\* walked from the top-level list, is the sum of the six counters, every
\* counter is the number of taxa of its rank in the tree, and the total of the
\* info summary is that sum.
C1_CountsMatchTree ==
    /\ WalkCount(taxa, taxonomy, AllRanks) = SumStats(stats, 6)
    /\ \A d \in 1..6 : StatsOf(stats, Ranks[d]) = WalkCount(taxa, taxonomy, {Ranks[d]})
    /\ TotalCount(stats) = WalkCount(taxa, taxonomy, AllRanks)

\* A finished read that made a taxon of every rank.
C1_Witness ==
    /\ pc = "otherlists"
    /\ \A d \in 1..6 : StatsOf(stats, Ranks[d]) >= 1
    /\ WalkCount(taxa, taxonomy, AllRanks) = 6

Parents(n) == {p \in 1..Len(taxa) : n \in Range(taxa[p].subtaxa)}

\* C2: every taxon below Infraclass is in the subtaxa list of exactly one
\* taxon, that taxon is of the rank immediately above, and the supertaxon
\* field holds that taxon's name.
C2_SupertaxonIsParent ==
    \A n \in 1..Len(taxa) :
        taxa[n].rank # "Infraclass" =>
            /\ Cardinality(Parents(n)) = 1
            /\ \A p \in Parents(n) :
                  /\ taxa[n].supertaxon = taxa[p].name
                  /\ Depth(taxa[p].rank) + 1 = Depth(taxa[n].rank)

\* A finished read with a taxon of every rank below Infraclass, among them a
\* genus whose name differs from its cell.
C2_Witness ==
    /\ pc = "otherlists"
    /\ \A d \in 2..6 : \E n \in 1..Len(taxa) : taxa[n].rank = Ranks[d]
    /\ \E i \in 1..Len(index) :
          taxa[index[i].taxon].rank = "Genus" /\ index[i].key # taxa[index[i].taxon].name

\* C3: a row of a rank below Infraclass that comes before any row of the rank
\* above makes the read fail with StructuralOrderError.
C3_TypedOrderError ==
    (pc = "master" /\ err # "none") => err = "StructuralOrderError"

\* The rank cell of depth d of a row, at the column shift of the file.
RankCell(r, d) ==
    IF d = 1 THEN r[ColInfraclass]
    ELSE r[(CASE d = 2 -> ColOrder [] d = 3 -> ColFamily [] d = 4 -> ColGenus
              [] d = 5 -> ColSpecies [] d = 6 -> ColSubspecies) + column_shift]

FilledRanks(r) == {d \in 1..6 : RankCell(r, d) # None}

\* C4: a row makes at most one taxon, of the first rank in the order
\* Infraclass..Subspecies whose cell is filled; a row with no rank cell
\* filled changes neither tree, index nor counters.
C4_FirstFilledRank ==
    [][rownum' = rownum + 1 =>
         IF FilledRanks(row') = {}
         THEN /\ taxa' = taxa /\ taxonomy' = taxonomy
              /\ index' = index /\ stats' = stats /\ err' = err
         ELSE \/ err' # "none" /\ taxa' = taxa
              \/ /\ err' = "none"
                 /\ Len(taxa') = Len(taxa) + 1
                 /\ taxa'[Len(taxa')].rank = Ranks[Min(FilledRanks(row'))]]_vars

\* Every row so far made a taxon and the last one, with two rank cells
\* filled, made one of the higher rank.
C4_Witness ==
    /\ rownum > 0
    /\ rownum = Len(taxa)
    /\ Cardinality(FilledRanks(row)) = 2
    /\ Min(FilledRanks(row)) >= 2
    /\ taxa[Len(taxa)].rank = Ranks[Min(FilledRanks(row))]

\* C5: a new taxon of rank Infraclass is appended to the top-level list; a new
\* taxon of a lower rank is appended to the subtaxa list of the taxon of the
\* rank above that was made last, and to no other list; so every list holds
\* its taxa in the order of their rows.
Increasing(list) == \A i, j \in 1..Len(list) : i < j => list[i] < list[j]

C5_AppendedToLatestParent ==
    /\ [][Len(taxa') = Len(taxa) + 1 =>
            LET id == Len(taxa')
                above == {m \in 1..Len(taxa) :
                             Depth(taxa[m].rank) + 1 = Depth(taxa'[id].rank)}
            IN IF taxa'[id].rank = "Infraclass"
               THEN /\ taxonomy' = Append(taxonomy, id)
                    /\ \A q \in 1..Len(taxa) : taxa'[q].subtaxa = taxa[q].subtaxa
               ELSE /\ taxonomy' = taxonomy
                    /\ above # {}
                    /\ \A q \in 1..Len(taxa) :
                          taxa'[q].subtaxa =
                              IF q = Max(above) THEN Append(taxa[q].subtaxa, id)
                              ELSE taxa[q].subtaxa]_vars
    /\ [](Increasing(taxonomy)
          /\ \A n \in 1..Len(taxa) : Increasing(taxa[n].subtaxa))

\* A taxon with two subtaxa that is not the first taxon of its rank.
C5_Witness ==
    \E p \in 1..Len(taxa) :
        /\ Len(taxa[p].subtaxa) >= 2
        /\ \E m \in 1..(p - 1) : taxa[m].rank = taxa[p].rank

\* C6: every taxon's canonical name (name, binomial_name for a Species,
\* trinomial_name for a Subspecies) is a key of the index, holding a taxon of
\* that canonical name, and every taxon the index holds is in the tree.
C6_IndexedByCanonicalName ==
    /\ \A n \in 1..Len(taxa) :
          /\ IndexHas(index, CanonicalName(taxa[n]))
          /\ CanonicalName(taxa[IndexGet(index, CanonicalName(taxa[n]))])
                = CanonicalName(taxa[n])
    /\ \A i \in 1..Len(index) :
          index[i].taxon \in 1..Len(taxa)
          /\ (taxa[index[i].taxon].rank = "Infraclass"
                  => index[i].taxon \in Range(taxonomy))
          /\ (taxa[index[i].taxon].rank # "Infraclass"
                  => Parents(index[i].taxon) # {})

(***************************************************************************)
(* The name transforms, on cells that end in markers and spaces            *)
(***************************************************************************)
\* The ends of a name cell: up to MaxTail extinct markers and spaces.
Tails == SeqsUpTo({Space, Dagger}, MaxTail)

NameRows(shift) ==
    {RowOfRank(shift, d, FirstCell(Ranks[d])) : d \in 1..3}
    \cup {RowOfRank(shift, 4, <<"a", "b">> \o t) : t \in Tails}
    \cup {RowOfRank(shift, 5, <<"c">> \o t) : t \in Tails}
    \cup {RowOfRank(shift, 6, <<"d">> \o t) : t \in Tails}

ReadNameRow == ReadRowFrom(NameRows(column_shift))

NamesNext == ReadNameRow

NamesSpec == Init /\ [][NamesNext]_vars

EndsWith(s, chars) == s # <<>> /\ s[Len(s)] \in chars

\* C7: no trinomial_name holds the extinct marker, wherever the marker stands
\* in the genus, species or subspecies part and with or without a space
\* before it.
C7_NoMarkerInTrinomial ==
    \A n \in 1..Len(taxa) :
        taxa[n].rank = "Subspecies" => ~Contains(taxa[n].trinomial_name, Dagger)

\* C8: no genus name and no binomial_name ends with the extinct marker or with
\* whitespace, whatever the order of the markers and spaces that end the cell.
C8_NoTrailingMarkerOrSpace ==
    \A n \in 1..Len(taxa) :
        /\ taxa[n].rank = "Genus" => ~EndsWith(taxa[n].name, {Dagger, Space})
        /\ taxa[n].rank = "Species" =>
              ~EndsWith(taxa[n].binomial_name, {Dagger, Space})

(***************************************************************************)
(* The merge passes, on taxonomies read from a master worksheet            *)
(***************************************************************************)
\* The master worksheets the merges are run on: the chain from Infraclass
\* down to each rank, a worksheet with two genera and one with two species of
\* one name.
ChainSheet(g) ==
    <<<<1, FirstCell("Infraclass")>>, <<2, FirstCell("Order")>>,
      <<3, FirstCell("Family")>>, <<4, g>>, <<5, FirstCell("Species")>>,
      <<6, FirstCell("Subspecies")>>>>

SheetShapes ==
    UNION {{SubSeq(ChainSheet(g), 1, n) : n \in 1..6} : g \in GenusCells}
    \cup {SubSeq(ChainSheet(g), 1, 4) \o <<<<4, h>>, <<5, FirstCell("Species")>>>> :
            g \in GenusCells, h \in GenusCells}
    \cup {SubSeq(ChainSheet(g), 1, 5) \o <<<<5, FirstCell("Species")>>>> :
            g \in GenusCells}

MasterSheets(shift) ==
    {[k \in 1..Len(sh) |-> RowOfRank(shift, sh[k][1], sh[k][2])] : sh \in SheetShapes}

MergeInit ==
    /\ pc = "otherlists"
    /\ column_shift \in {0, 1}
    /\ rownum = 0
    /\ row = BlankRow
    /\ \E ws \in MasterSheets(column_shift) :
          LET w == MasterRead(EmptyWbl, column_shift, ws) IN
          /\ taxa = w.taxa
          /\ taxonomy = w.taxonomy
          /\ index = w.index
          /\ stats = w.stats
          /\ err = w.err
    /\ multi = <<>>
    /\ comp = <<>>
    /\ other = <<>>
    /\ OutIdle

MergeNext ==
    \/ ReadOtherLists
    \/ SkipOtherLists
    \/ ReadMultilingual
    \/ SkipMultilingual
    \/ ReadComplementary
    \/ SkipComplementary

MergeSpec == MergeInit /\ [][MergeNext]_vars

(***************************************************************************)
(* The three-row loop of IocMultilingualFile.read, row by row              *)
(***************************************************************************)
\* The rows of a worksheet of version 7.3 or 8.1 the loop is run on: a name
\* cell that is empty or a species name, and one of two texts in the other
\* columns.
CycleNameCells == {None, <<"A", "b", Space, "c">>, <<"A", "b", Space, "d">>}
CycleRows == {MultiRow(n, v) : n \in CycleNameCells, v \in {<<"u">>, <<"x">>}}

CycleInit ==
    /\ pc = "old-layout"
    /\ column_shift = 0
    /\ rownum = 0
    /\ row = BlankRow
    /\ \E g \in GenusCells :
          LET ws == [k \in 1..5 |->
                        RowOfRank(column_shift, ChainSheet(g)[k][1],
                                  ChainSheet(g)[k][2])]
              w == MasterRead(EmptyWbl, column_shift, ws) IN
          /\ taxa = w.taxa
          /\ taxonomy = w.taxonomy
          /\ index = w.index
          /\ stats = w.stats
          /\ err = w.err
    /\ multi = <<>>
    /\ comp = <<>>
    /\ other = <<>>
    /\ OutIdle

\* One turn of the loop for version 7.3 or 8.1.
ReadOldLayoutRow ==
    /\ pc = "old-layout"
    /\ Len(cycle.read) < MaxCycleRows
    /\ \E r \in CycleRows :
          LET s == OldLayoutStep(cycle.i, cycle.name, cycle.entry, multi, r) IN
          /\ cycle' = [i |-> s.i, name |-> s.name, entry |-> s.entry,
                       read |-> Append(cycle.read, r)]
          /\ multi' = s.table
    /\ UNCHANGED <<pc, column_shift, rownum, row, taxa, taxonomy, index, stats, err,
                   comp, other>>
    /\ UNCHANGED <<sheet, versions, opts, fs, loaded, batch, result, stdout, written>>

\* The worksheet has no more rows: read calls _add_languages and returns.
FinishOldLayout ==
    /\ pc = "old-layout"
    /\ pc' = "complementary"
    /\ taxa' = AddLanguages(taxa, index, multi)
    /\ UNCHANGED <<column_shift, rownum, row, taxonomy, index, stats, err, multi,
                   comp, other>>
    /\ UNCHANGED outVars

CycleNext == ReadOldLayoutRow \/ FinishOldLayout

CycleSpec == CycleInit /\ [][CycleNext]_vars

(***************************************************************************)
(* handle_files after the reads: version check and output                  *)
(***************************************************************************)
V73 == <<"7", ".", "3">>
V81 == <<"8", ".", "1">>
V141 == <<"1", "4", ".", "1">>

\* The order of the characters of a version string by code point.
VersionChars == <<".", "0", "1", "2", "3", "4", "5", "6", "7", "8", "9">>

VCode(c) == CHOOSE i \in 1..Len(VersionChars) : VersionChars[i] = c

\* a < b on Python str
RECURSIVE StrLess(_, _)
StrLess(a, b) ==
    IF b = <<>> THEN FALSE
    ELSE IF a = <<>> THEN TRUE
    ELSE IF VCode(a[1]) # VCode(b[1]) THEN VCode(a[1]) < VCode(b[1])
    ELSE StrLess(Tail(a), Tail(b))

\* self.column_shift of IocMasterFile.__init__ (Absent: the attribute is not set)
ColumnShift(version) ==
    IF version \in {V81, V73} THEN 0
    ELSE IF ~StrLess(version, V141) THEN 1
    ELSE Absent

\* iocwbl.version: IocWbl.__init__ sets it to None and the readers leave it.
IocWblVersion == None

\* len(set(version_values)) <= 1
FileVersionsAreConsistentOff(vs) == Cardinality({vs[i] : i \in 1..Len(vs)}) <= 2

FileVersionsAreConsistent(vs) == Cardinality({vs[i] : i \in 1..Len(vs)}) <= 1

\* A line of print, with the values formatted into it.
Line(text, values) == [line |-> text, data |-> values]

\* print(json.dumps(iocwbl.taxonomy, indent=2)): the list of the top-level
\* taxa with the taxon dicts it reaches.
JsonDump(tx, top) == Line("json", <<[taxa |-> tx, taxonomy |-> top]>>)

\* print_taxonomy_info: the version, the counters and their sum.
PrintTaxonomyInfo(version, st) ==
    Line("Taxonomy statistics:",
         <<version, st,
           st.infraclass_count + st.family_count + st.order_count
           + st.genus_count + st.species_count + st.subspecies_count>>)

\* What handle_files prints while it reads the files whose versions are vs.
RECURSIVE ReadingLines(_)
ReadingLines(vs) ==
    IF vs = <<>> THEN <<>>
    ELSE <<Line("Reading IOC File", <<>>), Line("IOC File Version:", <<Head(vs)>>)>>
         \o ReadingLines(Tail(vs))

PrintedByReads(o, vs) ==
    IF o.verbose
    THEN (IF o.dry_run THEN <<Line("Dry-run:", <<>>)>> ELSE <<>>)
         \o <<Line("IOC files:", <<>>)>> \o ReadingLines(vs)
    ELSE <<>>

\* if info: print_taxonomy_info(iocwbl, verbose)
InfoLines(o, version, st) ==
    IF o.info THEN <<PrintTaxonomyInfo(version, st)>> ELSE <<>>

CheckVersions ==
    /\ pc = "versions"
    /\ err = "none"
    /\ IF FileVersionsAreConsistent(versions)
       THEN pc' = "output" /\ err' = err /\ stdout' = stdout
       ELSE /\ pc' = pc
            /\ err' = "ERROR_FILE_VERSION_MISMATCH"
            /\ stdout' = Append(stdout, Line("Error: Version mismatch", <<>>))
    /\ UNCHANGED <<column_shift, rownum, row, taxa, taxonomy, index, stats,
                   multi, comp, other>>
    /\ UNCHANGED <<sheet, versions, opts, fs, loaded, batch, result, written, cycle>>

\* The branch of handle_files that writes, with the test for the directory
\* left out.
WriteOutputUnchecked ==
    /\ pc = "output"
    /\ err = "none"
    /\ ~opts.dry_run /\ opts.write
    /\ LET w == WriteToFiles(taxa, taxonomy, IocWblVersion,
                             fs[opts.output_dir].files) IN
       /\ fs' = [fs EXCEPT ![opts.output_dir] = [exists |-> TRUE, files |-> w.files]]
       /\ taxa' = w.taxa
       /\ written' = written \o w.order
       /\ cycle' = cycle
       /\ stdout' = stdout
                     \o (IF opts.verbose THEN <<Line("Writing files ...", <<>>)>>
                         ELSE <<>>)
                     \o InfoLines(opts, IocWblVersion, stats)
       /\ pc' = "done"
       /\ err' = err
    /\ UNCHANGED <<column_shift, rownum, row, taxonomy, index, stats,
                   multi, comp, other>>
    /\ UNCHANGED <<sheet, versions, opts, loaded, batch, result>>

\* not dry_run and write: the directory must not exist; os.makedirs(p) and
\* iocwbl.write_to_files(p, VERSION_FILE_NAME) otherwise.
WriteOutput ==
    /\ pc = "output"
    /\ err = "none"
    /\ ~opts.dry_run /\ opts.write
    /\ IF fs[opts.output_dir].exists
       THEN /\ err' = "ERROR_DATA_DIR_EXISTS_ALREADY"
            /\ stdout' = Append(stdout, Line("Error: Directory already exists", <<>>))
            /\ UNCHANGED <<pc, fs, taxa, written, cycle>>
       ELSE LET w == WriteToFiles(taxa, taxonomy, IocWblVersion, <<>>) IN
            /\ fs' = [fs EXCEPT ![opts.output_dir] =
                                    [exists |-> TRUE, files |-> w.files]]
            /\ taxa' = w.taxa
            /\ written' = written \o w.order
            /\ cycle' = cycle
            /\ stdout' = stdout
                          \o (IF opts.verbose THEN <<Line("Writing files ...", <<>>)>>
                              ELSE <<>>)
                          \o InfoLines(opts, IocWblVersion, stats)
            /\ pc' = "done"
            /\ err' = err
    /\ UNCHANGED <<column_shift, rownum, row, taxonomy, index, stats,
                   multi, comp, other>>
    /\ UNCHANGED <<sheet, versions, opts, loaded, batch, result>>

\* not dry_run and not write: print_to_stdout
PrintToStdout ==
    /\ pc = "output"
    /\ err = "none"
    /\ ~opts.dry_run /\ ~opts.write
    /\ stdout' = stdout
                  \o (IF opts.verbose THEN <<Line("Printing to stdout ...", <<>>)>>
                      ELSE <<>>)
                  \o <<JsonDump(taxa, taxonomy)>>
                  \o InfoLines(opts, IocWblVersion, stats)
    /\ pc' = "done"
    /\ UNCHANGED <<column_shift, rownum, row, taxa, taxonomy, index, stats, err,
                   multi, comp, other>>
    /\ UNCHANGED <<sheet, versions, opts, fs, loaded, batch, result, written, cycle>>

\* dry_run: neither branch of "if not dry_run" is taken
DryRun ==
    /\ pc = "output"
    /\ err = "none"
    /\ opts.dry_run
    /\ stdout' = stdout \o InfoLines(opts, IocWblVersion, stats)
    /\ pc' = "done"
    /\ UNCHANGED <<column_shift, rownum, row, taxa, taxonomy, index, stats, err,
                   multi, comp, other>>
    /\ UNCHANGED <<sheet, versions, opts, fs, loaded, batch, result, written, cycle>>

\* A later IocWbl(dirpath) on the directory of the run.
LoadFromDir ==
    /\ pc = "done"
    /\ loaded' = LoadTaxonomy(fs, opts.output_dir)
    /\ pc' = "loaded"
    /\ UNCHANGED <<column_shift, rownum, row, taxa, taxonomy, index, stats, err,
                   multi, comp, other>>
    /\ UNCHANGED <<sheet, versions, opts, fs, batch, result, stdout, written, cycle>>

\* The program is run once more with the same arguments and files.
RunAgain ==
    /\ pc \in {"done", "loaded"}
    /\ LET w == MasterRead(EmptyWbl, column_shift, sheet) IN
       /\ taxa' = w.taxa
       /\ taxonomy' = w.taxonomy
       /\ index' = w.index
       /\ stats' = w.stats
       /\ err' = w.err
    /\ pc' = "versions"
    /\ loaded' = EmptyWbl
    /\ stdout' = PrintedByReads(opts, versions)
    /\ written' = <<>>
    /\ cycle' = cycle
    /\ UNCHANGED <<column_shift, rownum, row, multi, comp, other>>
    /\ UNCHANGED <<sheet, versions, opts, fs, batch, result>>

\* The versions of ioc_files: that of the master file, then those of the
\* other files read (None is the version of an IocOtherListsFile).
MaxFiles == 3
MasterVersions == {V81, V141}
VersionLists ==
    {vs \in UNION {[1..k -> {V81, V141, None}] : k \in 1..MaxFiles} :
        vs[1] \in MasterVersions}

\* The master worksheets whose taxonomy is written: the chain from Infraclass
\* down to each rank, worksheets with two Infraclass rows in either order,
\* the chain followed by a second Infraclass with an Order of its own, and
\* the chain down to Family followed by a second Infraclass with an Order of
\* the name of the first Order.
OutputShapes ==
    {SubSeq(ChainSheet(<<"A", "b">>), 1, n) : n \in 1..6}
    \cup {<<<<1, <<"N">>>>, <<1, <<"D">>>>>>, <<<<1, <<"D">>>>, <<1, <<"N">>>>>>,
          ChainSheet(<<"A", "b">>) \o <<<<1, <<"D">>>>, <<2, <<"B">>>>>>,
          SubSeq(ChainSheet(<<"A", "b">>), 1, 3)
              \o <<<<1, <<"D">>>>, <<2, FirstCell("Order")>>>>}

OutputSheets(shift) ==
    {[k \in 1..Len(sh) |-> RowOfRank(shift, sh[k][1], sh[k][2])] : sh \in OutputShapes}

\* The directory an earlier run has written the one-row taxonomy N to.
StaleDir ==
    LET w == MasterRead(EmptyWbl, 0, <<RowOfRank(0, 1, <<"N">>)>>) IN
    [exists |-> TRUE,
     files |-> WriteToFiles(w.taxa, w.taxonomy, IocWblVersion, <<>>).files]

OutputInit ==
    /\ pc = "versions"
    /\ versions \in VersionLists
    /\ column_shift = ColumnShift(versions[1])
    /\ sheet \in OutputSheets(column_shift)
    /\ LET w == MasterRead(EmptyWbl, column_shift, sheet) IN
       /\ taxa = w.taxa
       /\ taxonomy = w.taxonomy
       /\ index = w.index
       /\ stats = w.stats
       /\ err = w.err
    /\ rownum = 0
    /\ row = BlankRow
    /\ multi = <<>>
    /\ comp = <<>>
    /\ other = <<>>
    /\ opts \in [write : BOOLEAN, dry_run : BOOLEAN, info : BOOLEAN, verbose : BOOLEAN,
               output_dir : OutputDirs]
    /\ \E f \in [OutputDirs -> {NoDir, StaleDir}] :
          fs = [d \in AllDirs |-> IF d \in OutputDirs THEN f[d] ELSE NoDir]
    /\ loaded = EmptyWbl
    /\ batch = <<>>
    /\ result = <<>>
    /\ stdout = PrintedByReads(opts, versions)
    /\ written = <<>>
    /\ cycle = NoCycle

OutputNext ==
    \/ CheckVersions
    \/ WriteOutput
    \/ PrintToStdout
    \/ DryRun
    \/ LoadFromDir
    \/ RunAgain

OutputSpec == OutputInit /\ [][OutputNext]_vars

(***************************************************************************)
(* sorted_ioc_files (src/src and src/ts-ioc) and the handle_files of       *)
(* src/src/ts-ioc.py                                                       *)
(***************************************************************************)
TitleMaster == <<"M", "a", "s", "t", "e", "r">>
VsOtherLists == <<"v", "s", "_", "o", "t", "h", "e", "r", "_", "l", "i", "s", "t", "s">>
Ioc == <<"I", "O", "C">>
TitleOtherLists == Ioc \o <<"_">> \o VsOtherLists
TitleList == <<"L", "i", "s", "t">>
TitleSources == <<"S", "o", "u", "r", "c", "e", "s">>
TitleIoc73 == Ioc \o <<Space>> \o V73
TitleIoc81 == Ioc \o <<Space>> \o V81
Title141 == V141
TitleNotes == <<"N", "o", "t", "e", "s">>

\* x in s on Python str
IsSubstring(x, s) ==
    \E i \in 0..(Len(s) - Len(x)) : SubSeq(s, i + 1, i + Len(x)) = x

\* The characters of the titles that [A-Za-z ] matches and those \d matches.
LettersAndSpace ==
    {"M", "a", "s", "t", "e", "r", "v", "o", "h", "l", "i", "I", "O", "C", "L",
     "S", "u", "c", "N", Space}
Digits == {"0", "1", "2", "3", "4", "5", "6", "7", "8", "9"}

\* The length of the longest prefix of s made of characters of S.
RECURSIVE Span(_, _)
Span(s, S) == IF s # <<>> /\ s[1] \in S THEN 1 + Span(Tail(s), S) ELSE 0

\* re.compile("[A-Za-z ]*(\d*\.\d*).*").match(s): the group, None when there
\* is no match.  No digit and no "." is matched by [A-Za-z ], so the group
\* can only start where the longest run of letters and spaces ends.
TitleVersion(s) ==
    LET r1 == SubSeq(s, Span(s, LettersAndSpace) + 1, Len(s))
        d1 == Span(r1, Digits)
        r2 == SubSeq(r1, d1 + 1, Len(r1))
    IN IF r2 # <<>> /\ r2[1] = "."
       THEN SubSeq(r1, 1, d1 + 1 + Span(Tail(r2), Digits))
       ELSE None

\* A workbook: the titles of its worksheets, the version the pattern of its
\* class finds in the header cell it reads (Master, Other Lists and
\* Multilingual workbooks), and whether the header cells of the first
\* worksheet hold "English name" and "Counters" at the columns of the version.
Workbook(titles, version, columns) ==
    [titles |-> titles, version |-> version, columns |-> columns]

Workbooks ==
    {Workbook(<<TitleMaster>>, v, FALSE) : v \in {V81, V141}}
    \cup {Workbook(<<TitleOtherLists>>, V81, FALSE)}
    \cup {Workbook(<<TitleList, TitleSources>>, v, FALSE) : v \in {V81, V141}}
    \cup {Workbook(<<TitleIoc81>>, None, c) : c \in BOOLEAN}
    \cup {Workbook(<<Title141>>, None, TRUE),
          Workbook(<<TitleList>>, None, FALSE),
          Workbook(<<TitleNotes>>, None, FALSE)}

MaxBatch == 4
Batches == SeqsUpTo(Workbooks, MaxBatch)

\* An Ioc*File object: its order attribute, its version and its workbook.
IocFile(order, version, wb) ==
    [err |-> "none", file |-> [order |-> order, version |-> version, workbook |-> wb]]

NoIocFile(e) == [err |-> e, file |-> Absent]

\* The body of the loop of sorted_ioc_files of src/src/iocfiles.py for one
\* workbook: the file object appended to result, or the exception raised.
\* wb.worksheets[1] raises IndexError on a workbook of one worksheet;
\* regexp.match(s).groups() raises AttributeError when there is no match.
IocFileOfOld(wb) ==
    IF wb.titles[1] = TitleMaster THEN IocFile(1, wb.version, wb)
    ELSE IF IsSubstring(VsOtherLists, wb.titles[1]) THEN IocFile(2, wb.version, wb)
    ELSE IF wb.titles[1] = TitleList /\ Len(wb.titles) < 2 THEN NoIocFile("IndexError")
    ELSE IF wb.titles[1] = TitleList /\ wb.titles[2] = TitleSources
         THEN IocFile(3, wb.version, wb)
    ELSE IF IsSubstring(Ioc, wb.titles[1])
         THEN IF TitleVersion(wb.titles[1]) = None THEN NoIocFile("AttributeError")
              ELSE IocFile(4, TitleVersion(wb.titles[1]), wb)
    ELSE NoIocFile("UnrecognizedIocFile")

\* _complementary_wb_version of src/ts-ioc/iocfiles.py
ComplementaryWbVersion(wb) ==
    IF wb.titles[1] = TitleIoc73 THEN V73
    ELSE IF wb.titles[1] = TitleIoc81 THEN V81
    ELSE IF wb.titles[1] = Title141 THEN V141
    ELSE None

\* _is_complementary_wb
IsComplementaryWb(wb) == ComplementaryWbVersion(wb) # None /\ wb.columns

\* The body of the loop of sorted_ioc_files of src/ts-ioc/iocfiles.py.
IocFileOf(wb) ==
    IF wb.titles[1] = TitleMaster THEN IocFile(1, wb.version, wb)
    ELSE IF IsSubstring(VsOtherLists, wb.titles[1]) THEN IocFile(2, wb.version, wb)
    ELSE IF wb.titles[1] = TitleList /\ Len(wb.titles) < 2 THEN NoIocFile("IndexError")
    ELSE IF wb.titles[1] = TitleList /\ wb.titles[2] = TitleSources
         THEN IocFile(3, wb.version, wb)
    ELSE IF IsComplementaryWb(wb) THEN IocFile(4, ComplementaryWbVersion(wb), wb)
    ELSE NoIocFile("UnrecognizedIocFile")

\* sorted(result, key=lambda iocfile: iocfile.order): x is placed behind the
\* files already placed whose order is not greater (the sort is stable).
InsertByOrderDescending(s, x) ==
    LET k == Cardinality({i \in 1..Len(s) : s[i].order >= x.order}) IN
    SubSeq(s, 1, k) \o <<x>> \o SubSeq(s, k + 1, Len(s))

InsertByOrder(s, x) ==
    LET k == Cardinality({i \in 1..Len(s) : s[i].order <= x.order}) IN
    SubSeq(s, 1, k) \o <<x>> \o SubSeq(s, k + 1, Len(s))

RECURSIVE SortedFrom(_, _)
SortedFrom(placed, rest) ==
    IF rest = <<>> THEN placed
    ELSE SortedFrom(InsertByOrder(placed, Head(rest)), Tail(rest))

SortedByOrder(list) == SortedFrom(<<>>, list)

\* The checks behind the loop: made[i] is what the loop body gave for the
\* i-th path, the first exception ends the call; the test on the versions
\* is len(set(versions)) == 1 in src/src (old) and len(set(versions)) <= 1
\* in src/ts-ioc.
ChecksWithoutDuplicates(made, old) ==
    LET bad == {i \in 1..Len(made) : made[i].err # "none"}
        files == [i \in 1..Len(made) |-> made[i].file]
        vs == {files[i].version : i \in 1..Len(files)}
    IN IF bad # {} THEN [err |-> made[Min(bad)].err, files |-> Absent]
       ELSE IF ~(IF old THEN Cardinality(vs) = 1 ELSE Cardinality(vs) <= 1)
            THEN [err |-> "MultipleVersionsOfIocFiles", files |-> Absent]
       ELSE [err |-> "none", files |-> SortedByOrder(files)]

Checks(made, old) ==
    LET bad == {i \in 1..Len(made) : made[i].err # "none"}
        files == [i \in 1..Len(made) |-> made[i].file]
        os == {files[i].order : i \in 1..Len(files)}
        vs == {files[i].version : i \in 1..Len(files)}
    IN IF bad # {} THEN [err |-> made[Min(bad)].err, files |-> Absent]
       ELSE IF Cardinality(os) # Len(files)
            THEN [err |-> "MultipleIocFilesOfSameType", files |-> Absent]
       ELSE IF ~(IF old THEN Cardinality(vs) = 1 ELSE Cardinality(vs) <= 1)
            THEN [err |-> "MultipleVersionsOfIocFiles", files |-> Absent]
       ELSE [err |-> "none", files |-> SortedByOrder(files)]

\* sorted_ioc_files of src/src/iocfiles.py
SortedIocFilesOld(filepaths) ==
    Checks([i \in 1..Len(filepaths) |-> IocFileOfOld(filepaths[i])], TRUE)

\* sorted_ioc_files of src/ts-ioc/iocfiles.py
SortedIocFiles(filepaths) ==
    Checks([i \in 1..Len(filepaths) |-> IocFileOf(filepaths[i])], FALSE)

\* A call of sorted_ioc_files of src/ts-ioc on the batch: result holds the
\* list returned, Absent when the call raises.
SortBatch ==
    /\ pc = "batch"
    /\ err = "none"
    /\ LET r == SortedIocFiles(batch) IN
       /\ err' = r.err
       /\ result' = r.files
    /\ pc' = "sorted"
    /\ UNCHANGED <<column_shift, rownum, row, taxa, taxonomy, index, stats,
                   multi, comp, other>>
    /\ UNCHANGED <<sheet, versions, opts, fs, loaded, batch, stdout, written, cycle>>

\* A call of sorted_ioc_files of src/src on the batch.
SortBatchOld ==
    /\ pc = "batch"
    /\ err = "none"
    /\ LET r == SortedIocFilesOld(batch) IN
       /\ err' = r.err
       /\ result' = r.files
    /\ pc' = "sorted-old"
    /\ UNCHANGED <<column_shift, rownum, row, taxa, taxonomy, index, stats,
                   multi, comp, other>>
    /\ UNCHANGED <<sheet, versions, opts, fs, loaded, batch, stdout, written, cycle>>

BatchInit ==
    /\ pc = "batch"
    /\ batch \in Batches
    /\ result = <<>>
    /\ stdout = <<>>
    /\ written = <<>>
    /\ cycle = NoCycle
    /\ column_shift = 0
    /\ rownum = 0
    /\ row = BlankRow
    /\ taxa = <<>>
    /\ taxonomy = <<>>
    /\ index = <<>>
    /\ stats = EmptyStats
    /\ err = "none"
    /\ multi = <<>>
    /\ comp = <<>>
    /\ other = <<>>
    /\ sheet = <<>>
    /\ versions = <<>>
    /\ opts = [write |-> FALSE, dry_run |-> FALSE, info |-> FALSE, verbose |-> FALSE,
               output_dir |-> DEFAULT_DATA_DIR]
    /\ fs = EmptyFs
    /\ loaded = EmptyWbl

BatchNext ==
    \/ SortBatch
    \/ SortBatchOld

BatchSpec == BatchInit /\ [][BatchNext]_vars

(***************************************************************************)
(* kind_of_ioc_file and handle_files of src/src/ts-ioc.py                  *)
(***************************************************************************)
TYPE_IOC_MASTER_FILE == 1
TYPE_IOC_OTHER_LISTS_FILE == 2
TYPE_IOC_MULTILINGUAL_FILE == 3
TYPE_IOC_COMPLEMENTARY_FILE == 4
TYPE_UNRECOGNIZED_EXCEL_FILE == 5

\* The dict kind_of_ioc_file returns for a workbook one of its tests matches.
FileInfo(type, version, wb) ==
    [err |-> "none", dict |-> TRUE, filename |-> wb, type |-> type,
     version |-> version]

\* kind_of_ioc_file: the dict, the tuple returned when no test matches, or
\* the exception raised.
KindOfIocFile(wb) ==
    IF wb.titles[1] = TitleMaster
    THEN FileInfo(TYPE_IOC_MASTER_FILE, wb.version, wb)
    ELSE IF IsSubstring(VsOtherLists, wb.titles[1])
    THEN FileInfo(TYPE_IOC_OTHER_LISTS_FILE, wb.version, wb)
    ELSE IF wb.titles[1] = TitleList /\ Len(wb.titles) < 2
    THEN [err |-> "IndexError", dict |-> FALSE]
    ELSE IF wb.titles[1] = TitleList /\ wb.titles[2] = TitleSources
    THEN FileInfo(TYPE_IOC_MULTILINGUAL_FILE, wb.version, wb)
    ELSE IF IsSubstring(Ioc, wb.titles[1])
    THEN IF TitleVersion(wb.titles[1]) = None
         THEN [err |-> "AttributeError", dict |-> FALSE]
         ELSE FileInfo(TYPE_IOC_COMPLEMENTARY_FILE, TitleVersion(wb.titles[1]), wb)
    ELSE [err |-> "none", dict |-> FALSE,
          items |-> <<TYPE_UNRECOGNIZED_EXCEL_FILE, None>>]

\* sorted(file_infos, key=lambda file_info: file_info['type'])
InsertByType(s, x) ==
    LET k == Cardinality({i \in 1..Len(s) : s[i].type <= x.type}) IN
    SubSeq(s, 1, k) \o <<x>> \o SubSeq(s, k + 1, Len(s))

RECURSIVE SortedByTypeFrom(_, _)
SortedByTypeFrom(placed, rest) ==
    IF rest = <<>> THEN placed
    ELSE SortedByTypeFrom(InsertByType(placed, Head(rest)), Tail(rest))

\* The globals master_taxonomy, taxonomy_version and file_stats.
Globals(taxonomy_version, master_taxonomy, file_stats) ==
    [taxonomy_version |-> taxonomy_version, master_taxonomy |-> master_taxonomy,
     file_stats |-> file_stats]

\* load_ioc_subtaxa: the file names of taxon['subtaxa'] are replaced by the
\* taxa of the files, recursively.
RECURSIVE LoadIocSubtaxa(_, _)
LoadIocSubtaxa(files, taxon) ==
    [taxon EXCEPT !.subtaxa =
        [k \in 1..Len(taxon.subtaxa) |-> LoadIocSubtaxa(files, files[taxon.subtaxa[k]])]]

\* The number of taxa of the rank in the taxa of the list and below them.
RECURSIVE CountRank(_, _)
CountRank(list, rank) ==
    IF list = <<>> THEN 0
    ELSE (IF Head(list).rank = rank THEN 1 ELSE 0)
         + CountRank(Head(list).subtaxa, rank) + CountRank(Tail(list), rank)

\* load_ioc_taxonomy
LoadIocTaxonomy(files) ==
    LET filenames == InfraclassFiles(files)
        top == [k \in 1..Len(filenames) |-> LoadIocSubtaxa(files, files[filenames[k]])]
    IN Globals(files[VERSION_FILE_NAME].version, top,
               [infraclass_count |-> CountRank(top, "Infraclass"),
                order_count      |-> CountRank(top, "Order"),
                family_count     |-> CountRank(top, "Family"),
                genus_count      |-> CountRank(top, "Genus"),
                species_count    |-> CountRank(top, "Species"),
                subspecies_count |-> CountRank(top, "Subspecies")])

\* handle_files, lines 279-284: the files are inspected and sorted.  The key
\* of the sort raises TypeError on the tuple of an unrecognized workbook.
LegacyInspect ==
    /\ pc = "inspect"
    /\ err = "none"
    /\ LET infos == [i \in 1..Len(batch) |-> KindOfIocFile(batch[i])]
           bad == {i \in 1..Len(infos) : infos[i].err # "none"}
       IN IF bad # {}
          THEN err' = infos[Min(bad)].err /\ UNCHANGED <<pc, result>>
          ELSE IF \E i \in 1..Len(infos) : ~infos[i].dict
          THEN err' = "TypeError" /\ UNCHANGED <<pc, result>>
          ELSE /\ result' = SortedByTypeFrom(<<>>, infos)
               /\ pc' = "master-data"
               /\ err' = err
    /\ UNCHANGED <<column_shift, rownum, row, taxa, taxonomy, index, stats,
                   multi, comp, other>>
    /\ UNCHANGED <<sheet, versions, opts, fs, loaded, batch, stdout, written, cycle>>

\* handle_files, lines 285-300: without a master file the taxonomy is loaded
\* from ioc_dir; with one it is read (the master worksheets of the batches
\* hold no row below the header rows, so master_taxonomy stays empty) and,
\* if write, written by write_master_taxonomy_to_files.
LegacyMasterData ==
    /\ pc = "master-data"
    /\ err = "none"
    /\ IF result = <<>> \/ result[1].type # TYPE_IOC_MASTER_FILE
       THEN IF ~fs[DEFAULT_IOC_DIR].exists
            THEN err' = "ERROR_NO_MASTER_DATA" /\ UNCHANGED <<pc, fs, loaded>>
            ELSE /\ loaded' = LoadIocTaxonomy(fs[DEFAULT_IOC_DIR].files)
                 /\ pc' = "check-versions"
                 /\ UNCHANGED <<err, fs>>
       ELSE IF ~opts.write
            THEN pc' = "check-versions" /\ UNCHANGED <<err, fs, loaded>>
            ELSE IF fs[DEFAULT_IOC_DIR].exists
            THEN err' = "ERROR_DATA_DIR_EXISTS_ALREADY" /\ UNCHANGED <<pc, fs, loaded>>
            ELSE /\ fs' = [fs EXCEPT ![DEFAULT_IOC_DIR] =
                             [exists |-> TRUE,
                              files |-> DictPut(<<>>, VERSION_FILE_NAME,
                                                [version |-> result[1].version])]]
                 /\ loaded' = [loaded EXCEPT !.taxonomy_version = result[1].version]
                 /\ pc' = "check-versions"
                 /\ err' = err
    /\ UNCHANGED <<column_shift, rownum, row, taxa, taxonomy, index, stats,
                   multi, comp, other>>
    /\ UNCHANGED <<sheet, versions, opts, batch, result, stdout, written, cycle>>

\* handle_files, lines 301-316: the versions of the files are compared with
\* that of the first; the rest of the function prints.
LegacyCheckVersions ==
    /\ pc = "check-versions"
    /\ err = "none"
    /\ IF \E i \in 1..Len(result) : result[i].version # result[1].version
       THEN err' = "ERROR_INCONSISTENT_VERSIONS" /\ pc' = pc
       ELSE err' = err /\ pc' = "done"
    /\ UNCHANGED <<column_shift, rownum, row, taxa, taxonomy, index, stats,
                   multi, comp, other>>
    /\ UNCHANGED <<sheet, versions, opts, fs, loaded, batch, result, stdout, written, cycle>>

MaxLegacyFiles == 2

\* The directory an earlier run on a master file of version 7.3 has written.
StaleIocDir ==
    [exists |-> TRUE, files |-> DictPut(<<>>, VERSION_FILE_NAME, [version |-> V73])]

LegacyInit ==
    /\ pc = "inspect"
    /\ batch \in SeqsUpTo(Workbooks, MaxLegacyFiles)
    /\ result = <<>>
    /\ stdout = <<>>
    /\ written = <<>>
    /\ cycle = NoCycle
    /\ opts \in [write : BOOLEAN, dry_run : {FALSE}, info : {FALSE}, verbose : {FALSE},
               output_dir : {DEFAULT_DATA_DIR}]
    /\ \E d \in {NoDir, StaleIocDir} : fs = [EmptyFs EXCEPT ![DEFAULT_IOC_DIR] = d]
    /\ loaded = Globals(None, <<>>, EmptyStats)
    /\ column_shift = 0
    /\ rownum = 0
    /\ row = BlankRow
    /\ taxa = <<>>
    /\ taxonomy = <<>>
    /\ index = <<>>
    /\ stats = EmptyStats
    /\ err = "none"
    /\ multi = <<>>
    /\ comp = <<>>
    /\ other = <<>>
    /\ sheet = <<>>
    /\ versions = <<>>

LegacyNext ==
    \/ LegacyInspect
    \/ LegacyMasterData
    \/ LegacyCheckVersions

LegacySpec == LegacyInit /\ [][LegacyNext]_vars

\* sorted_ioc_files of src/ts-ioc on a batch, and the reads of handle_files of
\* src/tools/iocreader.py behind that of the master file.
OrderInit == BatchInit \/ MergeInit

OrderNext ==
    \/ SortBatch
    \/ SortBatchOld
    \/ ReadOtherLists
    \/ SkipOtherLists
    \/ ReadMultilingual
    \/ SkipMultilingual
    \/ ReadComplementary
    \/ SkipComplementary

OrderSpec == OrderInit /\ [][OrderNext]_vars

(***************************************************************************)
(* IocMasterFile.__init__: the column shift of a version                   *)
(***************************************************************************)
DigitChars == <<"0", "1", "2", "3", "4", "5", "6", "7", "8", "9">>

MaxMajorDigits == 3

\* The version strings "<major>.<minor>": a major number of up to
\* MaxMajorDigits digits without a leading zero and a minor digit.
VersionStrings ==
    {<<DigitChars[a + 1]>> \o rest \o <<".", DigitChars[b + 1]>> :
        a \in 1..9, b \in 0..9,
        rest \in UNION {[1..k -> Range(DigitChars)] : k \in 0..(MaxMajorDigits - 1)}}

\* The attributes __init__ leaves on the object for the version found in the
\* workbook: column_shift is set in two branches only.
IocMasterFileInit(version) ==
    IF version \in {V81, V73} THEN [version |-> version, column_shift |-> 0]
    ELSE IF ~StrLess(version, V141) THEN [version |-> version, column_shift |-> 1]
    ELSE [version |-> version]

\* IocMasterFile(filepath) on a master workbook of the version versions[1].
ConstructMaster ==
    /\ pc = "construct"
    /\ err = "none"
    /\ result' = IocMasterFileInit(versions[1])
    /\ pc' = "constructed"
    /\ UNCHANGED <<column_shift, rownum, row, taxa, taxonomy, index, stats, err,
                   multi, comp, other>>
    /\ UNCHANGED <<sheet, versions, opts, fs, loaded, batch, stdout, written, cycle>>

\* The first turn of the loop of read evaluates self.column_shift (line 217):
\* AttributeError when __init__ has not set it.
UseColumnShift ==
    /\ pc = "constructed"
    /\ err = "none"
    /\ IF "column_shift" \in DOMAIN result
       THEN column_shift' = result.column_shift /\ pc' = "master" /\ err' = err
       ELSE err' = "AttributeError" /\ UNCHANGED <<pc, column_shift>>
    /\ UNCHANGED <<rownum, row, taxa, taxonomy, index, stats, multi, comp, other>>
    /\ UNCHANGED <<sheet, versions, opts, fs, loaded, batch, result, stdout, written, cycle>>

VersionInit ==
    /\ pc = "construct"
    /\ \E v \in VersionStrings : versions = <<v>>
    /\ column_shift = 0
    /\ rownum = 0
    /\ row = BlankRow
    /\ taxa = <<>>
    /\ taxonomy = <<>>
    /\ index = <<>>
    /\ stats = EmptyStats
    /\ err = "none"
    /\ multi = <<>>
    /\ comp = <<>>
    /\ other = <<>>
    /\ sheet = <<>>
    /\ opts = [write |-> FALSE, dry_run |-> FALSE, info |-> FALSE, verbose |-> FALSE,
               output_dir |-> DEFAULT_DATA_DIR]
    /\ fs = EmptyFs
    /\ loaded = EmptyWbl
    /\ batch = <<>>
    /\ result = <<>>
    /\ stdout = <<>>
    /\ written = <<>>
    /\ cycle = NoCycle

VersionNext ==
    \/ ConstructMaster
    \/ UseColumnShift

VersionSpec == VersionInit /\ [][VersionNext]_vars

(***************************************************************************)
(* soffiles.py and sofreader.py: the SOF names file                        *)
(***************************************************************************)
\* The cells of a row of the names worksheet that read takes.
ColSofLevel == 1
ColSofName == 2
ColSofEn == 3
ColSofSv == 4
ColSofNotes == 5

Ordning == <<"o", "r", "d", "n", "i", "n", "g">>
Familj == <<"f", "a", "m", "i", "l", "j">>
Art == <<"a", "r", "t">>
Noter == <<"N", "o", "t", "e", "r">>

\* str(value) of a cell that holds None or a str
Str(value) == IF value = None THEN <<"N", "o", "n", "e">> ELSE value

\* s.split(" ", 1)
FirstSpace(s) == Min({i \in 1..Len(s) : s[i] = Space})
SplitOnce(s) ==
    IF ~Contains(s, Space) THEN <<s>>
    ELSE <<SubSeq(s, 1, FirstSpace(s) - 1), SubSeq(s, FirstSpace(s) + 1, Len(s))>>

\* SofWbl.__init__ with dirpath None, and the locals of SofNamesFile.read
\* before the loop: taxon, familj_i and art_i are unbound (0), the taxon
\* being an id of taxa once it is bound.
EmptySofStats == [order_count |-> 0, family_count |-> 0, species_count |-> 0]

SofReadStart ==
    [taxa |-> <<>>, taxonomy |-> <<>>, stats |-> EmptySofStats, err |-> "none",
     parsing_notes |-> FALSE, notes |-> <<>>, taxa_with_notes |-> <<>>,
     taxon |-> 0, familj_i |-> 0, art_i |-> 0, stopped |-> FALSE]

\* The last family of the last order, 0 where there is none.
LastOrder(s) == IF s.taxonomy = <<>> THEN 0 ELSE s.taxonomy[Len(s.taxonomy)]
LastFamily(s) ==
    IF LastOrder(s) = 0 \/ s.taxa[LastOrder(s)].subtaxa = <<>> THEN 0
    ELSE s.taxa[LastOrder(s)].subtaxa[Len(s.taxa[LastOrder(s)].subtaxa)]

\* if len(taxon['notes']) > 0 and not taxon['notes'] == ['None']:
\*     taxa_with_notes.append(taxon)
\* at the end of a turn of the loop outside the notes section.
QueueTaxon(s) ==
    IF s.taxon = 0 THEN [s EXCEPT !.err = "UnboundLocalError"]
    ELSE IF /\ Len(s.taxa[s.taxon].notes) > 0
            /\ s.taxa[s.taxon].notes # <<Str(None)>>
    THEN [s EXCEPT !.taxa_with_notes = Append(@, s.taxon)]
    ELSE s

\* The body of the loop of read for the row r outside the notes section.
SofTaxonRow(s, r) ==
    LET id == Len(s.taxa) + 1
        level == r[ColSofLevel]
    IN IF level = Ordning
       THEN QueueTaxon(
              [s EXCEPT !.stats.order_count = @ + 1,
                        !.taxa = Append(@, [common_names |-> [sv |-> r[ColSofSv]],
                                            name |-> r[ColSofName],
                                            notes |-> Split(Str(r[ColSofNotes])),
                                            rank |-> "Order",
                                            subtaxa |-> <<>>]),
                        !.taxonomy = Append(@, id),
                        !.taxon = id,
                        !.familj_i = 1])
       ELSE IF level = Familj
       THEN LET s1 == [s EXCEPT !.stats.family_count = @ + 1] IN
            IF LastOrder(s) = 0 THEN [s1 EXCEPT !.err = "IndexError"]
            ELSE QueueTaxon(
                   [s1 EXCEPT
                      !.taxa = Append([@ EXCEPT ![LastOrder(s)].subtaxa = Append(@, id)],
                                      [common_names |-> [en |-> r[ColSofEn],
                                                         sv |-> r[ColSofSv]],
                                       name |-> r[ColSofName],
                                       notes |-> Split(Str(r[ColSofNotes])),
                                       rank |-> "Family",
                                       sort_index |-> s.familj_i,
                                       subtaxa |-> <<>>,
                                       supertaxon |-> s.taxa[LastOrder(s)].name]),
                      !.taxon = id,
                      !.familj_i = @ + 1,
                      !.art_i = 1])
       ELSE IF level = Art
       THEN LET s1 == [s EXCEPT !.stats.species_count = @ + 1] IN
            IF r[ColSofName] = None THEN [s1 EXCEPT !.err = "AttributeError"]
            ELSE IF Len(Split(r[ColSofName])) < 2 \/ LastFamily(s) = 0
            THEN [s1 EXCEPT !.err = "IndexError"]
            ELSE QueueTaxon(
                   [s1 EXCEPT
                      !.taxa = Append([@ EXCEPT ![LastFamily(s)].subtaxa = Append(@, id)],
                                      [binomial_name |-> r[ColSofName],
                                       common_names |-> [en |-> r[ColSofEn],
                                                         sv |-> r[ColSofSv]],
                                       name |-> Split(r[ColSofName])[2],
                                       notes |-> Split(Str(r[ColSofNotes])),
                                       rank |-> "Species",
                                       sort_index |-> s.art_i,
                                       subtaxa |-> <<>>,
                                       supertaxon |-> s.taxa[LastFamily(s)].name]),
                      !.taxon = id,
                      !.art_i = @ + 1])
       ELSE IF level = None
       THEN QueueTaxon([s EXCEPT !.parsing_notes = TRUE])
       ELSE [s EXCEPT !.err = "UnrecognizedTaxon"]

\* The body of the loop of read for the row r in the notes section.
SofNoteRow(s, r) ==
    IF s.notes # <<>> /\ r[ColSofName] = None THEN [s EXCEPT !.stopped = TRUE]
    ELSE IF r[ColSofName] = Noter THEN s
    ELSE IF r[ColSofName] = None THEN [s EXCEPT !.err = "AttributeError"]
    ELSE IF Len(SplitOnce(r[ColSofName])) # 2 THEN [s EXCEPT !.err = "ValueError"]
    ELSE [s EXCEPT !.notes = DictPut(@, SplitOnce(r[ColSofName])[1],
                                     SplitOnce(r[ColSofName])[2])]

\* for row in ws.iter_rows(min_row=2)
RECURSIVE SofReadRows(_, _)
SofReadRows(s, rows) ==
    IF rows = <<>> \/ s.err # "none" \/ s.stopped THEN s
    ELSE SofReadRows(IF s.parsing_notes THEN SofNoteRow(s, Head(rows))
                     ELSE SofTaxonRow(s, Head(rows)),
                     Tail(rows))

\* for taxon in taxa_with_notes: the note ids of the taxon are looked up in
\* notes and the list of the texts is stored as its notes.
RECURSIVE ResolveNotes(_, _)
ResolveNotes(s, queue) ==
    IF queue = <<>> \/ s.err # "none" THEN s
    ELSE LET ids == s.taxa[Head(queue)].notes IN
         IF \E k \in 1..Len(ids) : ids[k] \notin DOMAIN s.notes
         THEN [s EXCEPT !.err = "KeyError"]
         ELSE ResolveNotes(
                [s EXCEPT !.taxa[Head(queue)].notes =
                              [k \in 1..Len(ids) |-> s.notes[ids[k]]]],
                Tail(queue))

\* SofNamesFile.read on the rows of the first worksheet from the second on.
SofNamesFileRead(rows) ==
    LET s == SofReadRows(SofReadStart, rows) IN
    ResolveNotes(s, s.taxa_with_notes)

\* fname of _write_taxon_to_file and of write_taxon_to_file
SofFileName(t) ==
    IF t.rank = "Species" THEN ReplaceSpaces(t.binomial_name) \o DotJson
    ELSE t.name \o DotJson

\* The entry of subtaxa_files for a subtaxon: write_taxon_to_file of
\* sofreader.py appends the name of a Species without ".json".
SubtaxonFileName(module, t) ==
    IF t.rank = "Species"
    THEN ReplaceSpaces(t.binomial_name)
         \o (IF module = "sofreader" THEN <<>> ELSE DotJson)
    ELSE t.name \o DotJson

\* _write_taxon_to_file of soffiles.py and write_taxon_to_file of sofreader.py
RECURSIVE SofWriteTaxonToFile(_, _, _, _)
RECURSIVE SofWriteTaxaToFiles(_, _, _, _)
SofWriteTaxaToFiles(module, tx, files, list) ==
    IF list = <<>> THEN [taxa |-> tx, files |-> files, order |-> <<>>]
    ELSE LET w == SofWriteTaxonToFile(module, tx, files, Head(list))
             v == SofWriteTaxaToFiles(module, w.taxa, w.files, Tail(list))
         IN [v EXCEPT !.order = w.order \o @]

SofWriteTaxonToFile(module, tx, files, id) ==
    LET w == SofWriteTaxaToFiles(module, tx, files, tx[id].subtaxa)
        subtaxa_files ==
            [k \in 1..Len(tx[id].subtaxa) |->
                SubtaxonFileName(module, w.taxa[tx[id].subtaxa[k]])]
        t == [w.taxa[id] EXCEPT !.subtaxa = subtaxa_files]
    IN [taxa |-> [w.taxa EXCEPT ![id] = t],
        files |-> DictPut(w.files, SofFileName(t), t),
        order |-> Append(w.order, Opened(SofFileName(t), id))]

\* The version file, then the taxa of the taxonomy in order.
SofWriteToFiles(module, tx, top, version, files) ==
    LET w == SofWriteTaxaToFiles(module, tx,
                 DictPut(files, VERSION_FILE_NAME, [version |-> version]), top)
    IN [w EXCEPT !.order = <<Opened(VERSION_FILE_NAME, 0)>> \o @]

\* sof_file.read() on a SofNamesFile of the worksheet
SofRead ==
    /\ pc = "sof-file"
    /\ err = "none"
    /\ LET s == SofNamesFileRead(sheet) IN
       /\ taxa' = s.taxa
       /\ taxonomy' = s.taxonomy
       /\ stats' = s.stats
       /\ err' = s.err
    /\ pc' = "sof-read"
    /\ UNCHANGED <<column_shift, rownum, row, index, multi, comp, other>>
    /\ UNCHANGED outVars

\* sofwbl.write_to_files(dirpath) of soffiles.py on the SofWbl of the file
\* read, for a dirpath that exists (the assert of line 78); the version of
\* the SofWbl is the None of SofWbl.__init__.
SofWblWriteToFiles ==
    /\ pc = "sof-read"
    /\ err = "none"
    /\ fs[opts.output_dir].exists
    /\ LET w == SofWriteToFiles("soffiles", taxa, taxonomy, None,
                                fs[opts.output_dir].files) IN
       /\ fs' = [fs EXCEPT ![opts.output_dir].files = w.files]
       /\ taxa' = w.taxa
       /\ written' = written \o w.order
       /\ cycle' = cycle
       /\ pc' = "sof-written"
       /\ err' = err
    /\ UNCHANGED <<column_shift, rownum, row, taxonomy, index, stats,
                   multi, comp, other>>
    /\ UNCHANGED <<sheet, versions, opts, loaded, batch, result, stdout>>

\* write_taxonomy_to_files(sofwbl, verbose) of sofreader.py on a SofWbl that
\* holds the taxonomy read and the version of the file; the directory is
\* that of DEFAULT_DATA_DIR.
WriteTaxonomyToFiles ==
    /\ pc = "sof-read"
    /\ err = "none"
    /\ \E verbose \in BOOLEAN :
       LET said == IF verbose THEN <<Line("Writing to files ...", <<>>)>>
                   ELSE <<>> IN
       /\ opts' = [opts EXCEPT !.write = TRUE, !.verbose = verbose]
       /\ IF fs[DEFAULT_DATA_DIR].exists
          THEN /\ err' = "ERROR_DATA_DIR_EXISTS_ALREADY"
               /\ stdout' = stdout \o said
                            \o <<Line("Error: Directory already exists", <<>>)>>
               /\ UNCHANGED <<pc, fs, taxa, written, cycle>>
          ELSE LET w == SofWriteToFiles("sofreader", taxa, taxonomy, versions[1],
                                        <<>>) IN
               /\ fs' = [fs EXCEPT ![DEFAULT_DATA_DIR] =
                                       [exists |-> TRUE, files |-> w.files]]
               /\ taxa' = w.taxa
               /\ written' = written \o w.order
               /\ cycle' = cycle
               /\ stdout' = stdout \o said
               /\ pc' = "sof-reader-written"
               /\ err' = err
    /\ UNCHANGED <<column_shift, rownum, row, taxonomy, index, stats,
                   multi, comp, other>>
    /\ UNCHANGED <<sheet, versions, loaded, batch, result>>

\* handle_files(filepath, write, info, verbose, dry_run) of sofreader.py:
\* after the first prints it evaluates soffiles.sof_file (line 142), a name
\* soffiles.py does not define, so the call ends there with AttributeError.
SofHandleFiles ==
    /\ pc = "sof-file"
    /\ err = "none"
    /\ \E o \in [write : BOOLEAN, dry_run : BOOLEAN, info : BOOLEAN,
                 verbose : BOOLEAN, output_dir : {DEFAULT_DATA_DIR}] :
          /\ opts' = o
          /\ stdout' = stdout
                       \o (IF o.dry_run THEN <<Line("Dry-run:", <<>>)>> ELSE <<>>)
                       \o (IF o.verbose THEN <<Line("SOF file:", <<>>)>> ELSE <<>>)
    /\ err' = "AttributeError"
    /\ pc' = "sof-handled"
    /\ UNCHANGED <<column_shift, rownum, row, taxa, taxonomy, index, stats,
                   multi, comp, other>>
    /\ UNCHANGED <<sheet, versions, fs, loaded, batch, result, written, cycle>>

\* The rows of the worksheets: taxon rows, with and without note ids, and
\* a species whose name cell holds one word.
SofRow(level, name, notes) ==
    [c \in 0..ColSofNotes |->
        CASE c = ColSofLevel -> level
          [] c = ColSofName  -> name
          [] c = ColSofNotes -> notes
          [] OTHER           -> None]

SofTaxonRows ==
    {SofRow(Ordning, <<"O">>, None), SofRow(Ordning, <<"D">>, <<"1">>),
     SofRow(Familj, <<"N">>, <<"1", " ", "2">>),
     SofRow(Art, <<"A", " ", "b">>, None), SofRow(Art, <<"A", " ", "c">>, <<"2">>),
     SofRow(Art, <<"A">>, None)}

\* The rows behind the first row with an empty level cell: the row that ends
\* the notes section, its heading, two notes and the row of a species.
SofNoteRows ==
    {SofRow(None, None, None), SofRow(None, Noter, None),
     SofRow(None, <<"1", " ", "a">>, None), SofRow(None, <<"2", " ", "b">>, None),
     SofRow(Art, <<"A", " ", "b">>, None)}

MaxSofTaxa == 3
MaxSofNotes == 2

\* A worksheet: taxon rows, then, unless the notes section is missing, the
\* row with the empty level cell and the rows behind it.
SofSheets ==
    {t \o n : t \in SeqsUpTo(SofTaxonRows, MaxSofTaxa),
              n \in {<<>>} \cup {<<SofRow(None, None, None)>> \o m :
                                    m \in SeqsUpTo(SofNoteRows, MaxSofNotes)}}

SofVersions == {<<"1", "7">>}

SofInit ==
    /\ pc = "sof-file"
    /\ sheet \in SofSheets
    /\ versions \in {<<v>> : v \in SofVersions}
    /\ column_shift = 0
    /\ rownum = 0
    /\ row = BlankRow
    /\ taxa = <<>>
    /\ taxonomy = <<>>
    /\ index = <<>>
    /\ stats = EmptySofStats
    /\ err = "none"
    /\ multi = <<>>
    /\ comp = <<>>
    /\ other = <<>>
    /\ opts = [write |-> FALSE, dry_run |-> FALSE, info |-> FALSE, verbose |-> FALSE,
               output_dir |-> DEFAULT_DATA_DIR]
    /\ fs \in {EmptyFs, [d \in AllDirs |-> [exists |-> TRUE, files |-> <<>>]]}
    /\ loaded = EmptyWbl
    /\ batch = <<>>
    /\ result = <<>>
    /\ stdout = <<>>
    /\ written = <<>>
    /\ cycle = NoCycle

SofNext ==
    \/ SofRead
    \/ SofWblWriteToFiles
    \/ WriteTaxonomyToFiles
    \/ SofHandleFiles

SofSpec == SofInit /\ [][SofNext]_vars

\* The runs of both readers.
ReadersInit == OutputInit \/ SofInit
ReadersNext == OutputNext \/ SofNext
ReadersSpec == ReadersInit /\ [][ReadersNext]_vars

(***************************************************************************)
(* Properties of the merge passes                                          *)
(***************************************************************************)
\* The exceptions the loop of IocComplementaryFile.read raises before the
\* merge is reached.
ReadLoopErrors == {"IndexError", "AttributeError", "UnboundLocalError", "TypeError"}

\* C9: the complementary merge gives a taxon the extinct and code of the
\* auxiliary entry of its index name exactly when that name is a key of the
\* auxiliary table and the taxon is a Genus, Species or Subspecies; every
\* other taxon keeps its extinct and code.
C9_CopiedIffNameAndRank ==
    [][(pc = "complementary" /\ err' \notin ReadLoopErrors) =>
          \A i \in 1..Len(index) :
              LET n == index[i].taxon
                  key == index[i].key
              IN IF InComp(comp', key) /\ taxa[n].rank \in RelevantRanks
                 THEN /\ "extinct" \in DOMAIN comp'[StrKey(key)]
                      /\ taxa'[n].extinct = comp'[StrKey(key)].extinct
                      /\ taxa'[n].code = comp'[StrKey(key)].code
                 ELSE /\ taxa'[n].extinct = taxa[n].extinct
                      /\ taxa'[n].code = taxa[n].code]_vars

\* C10: the multilingual merge leaves every taxon whose index name is a key
\* of the auxiliary table, whatever its rank, with the language keys it had
\* and those of the auxiliary entry, the value being the auxiliary one on the
\* keys of the entry and the old one on the others; the other taxa keep their
\* common_names.
C10_NamesMerged ==
    [][pc = "multilingual" =>
          \A i \in 1..Len(index) :
              LET n == index[i].taxon
                  key == index[i].key
                  old == taxa[n].common_names
                  new == taxa'[n].common_names
              IN IF key \in DOMAIN multi'
                 THEN /\ DOMAIN new = (DOMAIN old) \cup (DOMAIN multi'[key])
                      /\ \A k \in DOMAIN multi'[key] : new[k] = multi'[key][k]
                      /\ \A k \in (DOMAIN old) \ (DOMAIN multi'[key]) : new[k] = old[k]
                 ELSE new = old]_vars

\* A merged Species that kept the English name of the master row beside the
\* languages of its auxiliary entry.
C10_Witness ==
    /\ pc = "complementary"
    /\ \E i \in 1..Len(index) :
          /\ index[i].key \in DOMAIN multi
          /\ "en" \notin DOMAIN multi[index[i].key]
          /\ taxa[index[i].taxon].common_names["en"] = <<"e">>
          /\ "swe" \in DOMAIN taxa[index[i].taxon].common_names
          /\ taxa[index[i].taxon].common_names["swe"] = <<"u">>

MergeStages == {"otherlists", "multilingual", "complementary"}

IndexKeys == {index[i].key : i \in 1..Len(index)}

\* The names of the rows of an Other Lists worksheet.
OtherNames(rows) == {rows[k][ColOtherName] : k \in 1..Len(rows)} \ {None}

\* An Other Lists worksheet whose rows without a name follow a row with one.
OtherWellFormed(rows) == rows = <<>> \/ rows[1][ColOtherName] # None

\* The cross-reference table of a worksheet: what the loop of read builds on a
\* file object that has its taxonomy and nonindexed attributes.
OtherTable(rows) ==
    ReadOtherRows(rows, Absent, EarlierOtherListsFile).file.taxonomy

\* C11: a merge pass leaves the keys of the index and the taxa they hold, the
\* top-level list, every subtaxa list, every name, rank and supertaxon and
\* the six counters as they were; and a pass whose auxiliary names are none
\* of them a key of the index changes no taxon and raises no error.
C11_MergeKeepsTaxa ==
    [][(pc \in MergeStages) =>
          /\ index' = index /\ taxonomy' = taxonomy /\ stats' = stats
          /\ Len(taxa') = Len(taxa)
          /\ \A n \in 1..Len(taxa) :
                /\ taxa'[n].name = taxa[n].name
                /\ taxa'[n].rank = taxa[n].rank
                /\ taxa'[n].subtaxa = taxa[n].subtaxa
                /\ taxa'[n].supertaxon = taxa[n].supertaxon
          /\ (/\ pc = "otherlists"
              /\ OtherWellFormed(other')
              /\ OtherNames(other') \cap IndexKeys = {})
                 => (taxa' = taxa /\ err' = "none")
          /\ (/\ pc = "multilingual"
              /\ (DOMAIN multi') \cap IndexKeys = {})
                 => (taxa' = taxa /\ err' = "none")
          /\ (/\ pc = "complementary"
              /\ err' \notin ReadLoopErrors
              /\ \A k \in DOMAIN comp' : k.tuple \/ k.s \notin IndexKeys)
                 => (taxa' = taxa /\ err' = "none")]_vars

\* C12: once handle_files has read an Other Lists worksheet, every taxon
\* whose index name is a key of the cross-reference table of that worksheet
\* holds the following_entries and the lists of the entry of that name.
C12_OtherListsAttached ==
    [][(pc = "otherlists" /\ other' # <<>> /\ OtherWellFormed(other')) =>
          /\ err' = "none"
          /\ \A i \in 1..Len(index) :
                index[i].key \in DOMAIN OtherTable(other') =>
                    LET e == OtherTable(other')[index[i].key]
                        t == taxa'[index[i].taxon]
                    IN /\ t.following_entries = e.following_entries
                       /\ t.lists = e.lists]_vars

\* C13: a complementary worksheet with an entry of a rank other than that of
\* the taxon the index holds under the same name is merged without an error.
C13_RankCollisionAccepted ==
    [][(pc = "complementary" /\ err' \notin ReadLoopErrors
          /\ \E i \in 1..Len(index) :
                /\ InComp(comp', index[i].key)
                /\ comp'[StrKey(index[i].key)].rank # taxa[index[i].taxon].rank)
          => (err' = "none" /\ pc' = "done")]_vars

(***************************************************************************)
(* Properties of write, load and the output stage                          *)
(***************************************************************************)
\* A taxon with the taxa of its subtaxa list in place of their ids.
RECURSIVE Node(_, _)
Node(tx, id) ==
    [tx[id] EXCEPT !.subtaxa = [k \in 1..Len(tx[id].subtaxa) |->
                                   Node(tx, tx[id].subtaxa[k])]]

TreeOf(w) == [k \in 1..Len(w.taxonomy) |-> Node(w.taxa, w.taxonomy[k])]

\* The run has written its taxonomy to a directory that did not exist.
Written == opts.write /\ ~opts.dry_run /\ pc \in {"done", "loaded"}

\* C14: writing the taxonomy built from a master worksheet to a directory
\* that did not exist and loading that directory gives the top-level taxa, the
\* subtaxa lists and the fields of the taxonomy that was built, in the same
\* order.
C14_RoundTrip ==
    (pc = "loaded" /\ Written) =>
        /\ loaded.err = "none"
        /\ TreeOf(loaded) = TreeOf(MasterRead(EmptyWbl, column_shift, sheet))

ConsistencyErrors ==
    {"MultipleIocFilesOfSameType", "MultipleVersionsOfIocFiles",
     "ERROR_INCONSISTENT_VERSIONS", "ERROR_FILE_VERSION_MISMATCH"}

\* C16: a duplicate-kind or version-mismatch failure is raised before any
\* output directory or file has been created: when a run has ended with such
\* an error every directory is as it was when the run began, that is missing
\* or as an earlier run has left it.
C16_ConsistencyErrorBeforeOutput ==
    err \in ConsistencyErrors =>
        \A d \in AllDirs : fs[d] \in {NoDir, StaleDir, StaleIocDir}

\* The files the loop of sorted_ioc_files of src/ts-ioc makes of the batch.
Made == [i \in 1..Len(batch) |-> IocFileOf(batch[i])]

AllRecognised == \A i \in 1..Len(batch) : Made[i].err = "none"

DifferentKinds ==
    \A i, j \in 1..Len(batch) : i # j => Made[i].file.order # Made[j].file.order

OneVersion ==
    \A i, j \in 1..Len(batch) : Made[i].file.version = Made[j].file.version

IsPermutation(s, t) ==
    /\ Len(s) = Len(t)
    /\ \E f \in [1..Len(s) -> 1..Len(s)] :
          /\ \A i, j \in 1..Len(s) : i # j => f[i] # f[j]
          /\ \A i \in 1..Len(s) : s[i] = t[f[i]]

\* The place of a stage of handle_files in the order Master, Other Lists,
\* Multilingual, Complementary; 5 is behind the reads.
StageOf(p) ==
    CASE p = "master"        -> 1
      [] p = "otherlists"    -> 2
      [] p = "multilingual"  -> 3
      [] p = "complementary" -> 4
      [] OTHER               -> 5

MadeBy(p) ==
    [i \in 1..Len(batch) |->
        IF p = "sorted-old" THEN IocFileOfOld(batch[i]) ELSE IocFileOf(batch[i])]

Sorted == pc \in {"sorted", "sorted-old"}

\* Two files of the batch are of the same kind.
SameKindTwice(made) ==
    \E i, j \in 1..Len(made) :
        /\ i # j
        /\ made[i].err = "none" /\ made[j].err = "none"
        /\ made[i].file.order = made[j].file.order

Recognised(made) == \A i \in 1..Len(made) : made[i].err = "none"

\* C18 as stated: a batch containing two or more files of the same kind is
\* rejected by sorted_ioc_files with MultipleIocFilesOfSameType and no sorted
\* list is returned.
C18_DuplicateKindRejected ==
    (Sorted /\ SameKindTwice(MadeBy(pc))) =>
        (err = "MultipleIocFilesOfSameType" /\ result = Absent)

\* C18, amended: a batch all of whose files are recognised and which contains
\* two or more files of the same kind is rejected by sorted_ioc_files with
\* MultipleIocFilesOfSameType, whatever the versions and the input order, and
\* no sorted list is returned.
C18_RecognisedDuplicateKindRejected ==
    (Sorted /\ Recognised(MadeBy(pc)) /\ SameKindTwice(MadeBy(pc))) =>
        (err = "MultipleIocFilesOfSameType" /\ result = Absent)

\* Two Master workbooks of different versions around a Multilingual one.
C18_Witness ==
    /\ Sorted
    /\ Len(batch) = 3
    /\ Recognised(MadeBy(pc))
    /\ MadeBy(pc)[1].file.order = 1 /\ MadeBy(pc)[3].file.order = 1
    /\ MadeBy(pc)[2].file.order = 3
    /\ MadeBy(pc)[1].file.version # MadeBy(pc)[3].file.version
    /\ err = "MultipleIocFilesOfSameType"

\* Two files of the batch have different versions.
VersionsDiffer(made) ==
    \E i, j \in 1..Len(made) : made[i].file.version # made[j].file.version

KindsDiffer(made) ==
    \A i, j \in 1..Len(made) : i # j => made[i].file.order # made[j].file.order

\* C19: a batch is rejected with the version-mismatch error exactly when the
\* versions of its files are not all identical: a batch of recognised files
\* of distinct kinds is accepted when its versions are all equal and rejected
\* with MultipleVersionsOfIocFiles when they are not, and any batch with two
\* differing versions is rejected.
C19_MismatchIffVersionsDiffer ==
    (Sorted /\ Recognised(MadeBy(pc))) =>
        /\ KindsDiffer(MadeBy(pc)) =>
              /\ err = "MultipleVersionsOfIocFiles" <=> VersionsDiffer(MadeBy(pc))
              /\ ~VersionsDiffer(MadeBy(pc)) => err = "none"
        /\ VersionsDiffer(MadeBy(pc)) => (err # "none" /\ result = Absent)

\* The four tests of kind detection on the titles of a workbook.
TestMaster(wb) == wb.titles[1] = TitleMaster
TestOtherLists(wb) == IsSubstring(VsOtherLists, wb.titles[1])
TestListAndSources(wb) ==
    wb.titles[1] = TitleList /\ Len(wb.titles) >= 2 /\ wb.titles[2] = TitleSources
TestIoc(wb) == IsSubstring(Ioc, wb.titles[1])

\* The number of the first test the workbook satisfies, 0 when it satisfies
\* none.
FirstMatch(wb) ==
    IF TestMaster(wb) THEN 1
    ELSE IF TestOtherLists(wb) THEN 2
    ELSE IF TestListAndSources(wb) THEN 3
    ELSE IF TestIoc(wb) THEN 4
    ELSE 0

\* C20: kind detection applies the tests Master title, "vs_other_lists"
\* substring, List plus Sources titles, "IOC" substring in this order and the
\* first that matches decides the kind; a workbook matching none of them
\* fails with the unrecognized-file error: a batch with such a workbook is
\* rejected with UnrecognizedIocFile, and every file of a list returned has
\* the kind of the first test its workbook satisfies.
C20_FirstMatchDecidesKind ==
    pc = "sorted-old" =>
        /\ (\E i \in 1..Len(batch) : FirstMatch(batch[i]) = 0) =>
              (err = "UnrecognizedIocFile" /\ result = Absent)
        /\ err = "none" =>
              \A k \in 1..Len(result) : result[k].order = FirstMatch(result[k].workbook)

(***************************************************************************)
(* Properties of the version of a master file                              *)
(***************************************************************************)
DigitValue(c) == (CHOOSE i \in 1..Len(DigitChars) : DigitChars[i] = c) - 1

\* The number a sequence of digits writes.
RECURSIVE NumberOf(_)
NumberOf(ds) ==
    IF ds = <<>> THEN 0
    ELSE 10 * NumberOf(SubSeq(ds, 1, Len(ds) - 1)) + DigitValue(ds[Len(ds)])

MajorOf(v) == NumberOf(SubSeq(v, 1, Len(v) - 2))
MinorOf(v) == DigitValue(v[Len(v)])

\* The version is numerically at least 14.1.
AtLeast141(v) == MajorOf(v) > 14 \/ (MajorOf(v) = 14 /\ MinorOf(v) >= 1)

\* C21: for every version of a Master file the column shift is defined and
\* is 0 for "7.3" and "8.1" and 1 for every version numerically at least 14.1;
\* no other version below 14.1 yields shift 1.
C21_ColumnShiftOfVersion ==
    pc = "constructed" =>
        LET v == versions[1]
            defined == "column_shift" \in DOMAIN result
        IN /\ v \in {V73, V81} => (defined /\ result.column_shift = 0)
           /\ AtLeast141(v) => (defined /\ result.column_shift = 1)
           /\ (~AtLeast141(v) /\ v \notin {V73, V81}) =>
                 ~(defined /\ result.column_shift = 1)

\* The version the version file of the directory of the run holds.
Marker == fs[opts.output_dir].files[VERSION_FILE_NAME].version

\* C22: when the taxonomy of a Master file is written, the version file of
\* the output directory holds the version found in that Master file, and a
\* load of the directory gives a taxonomy of the version its version file
\* holds.
C22_MarkerHoldsMasterVersion ==
    /\ Written => Marker = versions[1]
    /\ (Written /\ pc = "loaded" /\ loaded.err = "none") => loaded.version = Marker

(***************************************************************************)
(* Properties of the options of handle_files                               *)
(***************************************************************************)
JsonPrinted == \E k \in 1..Len(stdout) : stdout[k].line = "json"

\* The last thing printed is the summary of the counters st.
InfoPrinted(st) ==
    /\ stdout # <<>>
    /\ stdout[Len(stdout)].line = "Taxonomy statistics:"
    /\ stdout[Len(stdout)].data[2] = st

\* The run of iocreader.py with dry_run: nothing written, no directory
\* made, no JSON printed, and with info the summary of the taxonomy read
\* from the master worksheet.
IocDryRunState ==
    (opts.dry_run /\ pc \in {"versions", "output", "done", "loaded"})
        => /\ written = <<>>
           /\ ~JsonPrinted
           /\ (opts.info /\ pc \in {"done", "loaded"})
                 => InfoPrinted(MasterRead(EmptyWbl, column_shift, sheet).stats)

\* The same for the run of sofreader.py on a worksheet that read accepts.
SofDryRunState ==
    (opts.dry_run /\ pc = "sof-handled")
        => /\ written = <<>>
           /\ ~JsonPrinted
           /\ (opts.info /\ SofNamesFileRead(sheet).err = "none")
                 => InfoPrinted(SofNamesFileRead(sheet).stats)

\* C23: with the dry-run option handle_files makes no output directory,
\* writes no file and prints no taxonomy JSON, whatever the write flag, and
\* with the info option the summary is printed from the taxonomy read from
\* the input file, with and without the verbose flag; for both readers.
C23_DryRunOnlyInfo ==
    /\ [](IocDryRunState /\ SofDryRunState)
    /\ [][opts'.dry_run => fs' = fs]_vars

\* The part of C23 on iocreader.py.
IocDryRunOnlyInfo ==
    /\ []IocDryRunState
    /\ [][opts'.dry_run => fs' = fs]_vars

\* A dry run of iocreader.py with info and without verbose has ended, for
\* either value of write.
IocDryRunEnded ==
    pc = "done" /\ opts.dry_run /\ opts.info /\ ~opts.verbose /\ opts.write
    /\ stats.species_count > 0

(***************************************************************************)
(* Properties of the order of the writes                                   *)
(***************************************************************************)
\* The taxa below the taxon id in the taxonomy tx.
RECURSIVE Descendants(_, _)
Descendants(tx, id) ==
    Range(tx[id].subtaxa)
    \cup UNION {Descendants(tx, c) : c \in Range(tx[id].subtaxa)}

\* The taxonomy read from the master worksheet, as it was before the write.
Built == MasterRead(EmptyWbl, column_shift, sheet)

\* C24: in a write the file of a taxon is opened only after the files of all
\* the taxa below it (and each taxon has its file), and the version file is
\* opened exactly once, before every file of a taxon.
C24_ChildrenBeforeParent ==
    Written =>
        /\ written # <<>>
        /\ written[1] = Opened(VERSION_FILE_NAME, 0)
        /\ \A k \in 2..Len(written) :
              /\ written[k].taxon \in 1..Len(Built.taxa)
              /\ written[k].name # VERSION_FILE_NAME
              /\ \A d \in Descendants(Built.taxa, written[k].taxon) :
                    \E j \in 1..(k - 1) : written[j].taxon = d
        /\ \A id \in 1..Len(Built.taxa) :
              \E k \in 2..Len(written) : written[k].taxon = id

\* A taxonomy of all six ranks and a second Infraclass has been written.
C24_Witness ==
    /\ Written
    /\ Len(taxonomy) = 2
    /\ \E id \in 1..Len(taxa) : taxa[id].rank = "Subspecies"
    /\ Len(written) = Len(taxa) + 1

(***************************************************************************)
(* Properties of the files of a written taxonomy                           *)
(***************************************************************************)
\* A write of one of the writers has been completed.
SofWriteDone == pc \in {"sof-written", "sof-reader-written"}
WriteDone == Written \/ SofWriteDone

\* The taxa as they were read, with the ids of the subtaxa in their lists.
TaxaRead == IF SofWriteDone THEN SofNamesFileRead(sheet).taxa ELSE Built.taxa

\* The files of the directory written to.
FilesWritten ==
    fs[IF pc = "sof-reader-written" THEN DEFAULT_DATA_DIR ELSE opts.output_dir].files

\* The name under which the file of the taxon id was opened.
NameOpenedFor(id) ==
    written[CHOOSE k \in 1..Len(written) : written[k].taxon = id].name

\* The subtaxa list of every taxon written is the list of the file names of
\* its subtaxa, in their order, and every name in the subtaxa list of a file
\* is the name of a file of the directory.
SubtaxaAreFiles ==
    /\ \A id \in 1..Len(taxa) :
          taxa[id].subtaxa =
              [k \in 1..Len(TaxaRead[id].subtaxa) |->
                  NameOpenedFor(TaxaRead[id].subtaxa[k])]
    /\ \A f \in DOMAIN FilesWritten \ {VERSION_FILE_NAME} :
          \A k \in 1..Len(FilesWritten[f].subtaxa) :
              FilesWritten[f].subtaxa[k] \in DOMAIN FilesWritten

\* C25: after a completed write the subtaxa list of every written record is
\* the list of the file names of its children in child order, and every
\* name of such a list is the name of a file written to the directory; for
\* the writer of iocfiles.py and the two of soffiles.py and sofreader.py.
C25_NoDanglingChild == WriteDone => SubtaxaAreFiles

\* The part of C25 on the writers of iocfiles.py and soffiles.py.
ClassWritersNoDanglingChild ==
    (WriteDone /\ pc # "sof-reader-written") => SubtaxaAreFiles

\* A taxonomy with a species has been written by the writer of soffiles.py.
SofSpeciesWritten ==
    pc = "sof-written" /\ \E id \in 1..Len(taxa) : taxa[id].rank = "Species"

(***************************************************************************)
(* Properties of the counters of a loaded taxonomy                         *)
(***************************************************************************)
\* The names of the files of the taxa written are pairwise different.
DistinctFileNames ==
    \A j, k \in 2..Len(written) : written[j].name = written[k].name => j = k

\* Every counter of the loaded IocWbl is the number of the taxa of its rank
\* in the loaded tree.
LoadedTalliedOnce ==
    \A d \in 1..6 :
        StatsOf(loaded.stats, Ranks[d])
            = WalkCount(loaded.taxa, loaded.taxonomy, {Ranks[d]})

\* C26: after the load of a directory a write has produced, every counter is
\* the number of the loaded taxa of its rank, and the counters are those of
\* the taxonomy that was written.
C26_LoadedCountsMatchWritten ==
    (pc = "loaded" /\ Written /\ loaded.err = "none") =>
        /\ LoadedTalliedOnce
        /\ loaded.stats = stats

\* C26 for the taxonomies whose taxa have files of different names.
LoadedCountsMatchDistinct ==
    (pc = "loaded" /\ Written /\ loaded.err = "none" /\ DistinctFileNames) =>
        /\ LoadedTalliedOnce
        /\ loaded.stats = stats

\* A taxonomy of all six ranks and two Infraclasses has been written and
\* loaded.
FullTaxonomyLoaded ==
    /\ pc = "loaded" /\ Written /\ loaded.err = "none" /\ DistinctFileNames
    /\ \A d \in 1..6 : StatsOf(loaded.stats, Ranks[d]) >= 1
    /\ loaded.stats.infraclass_count = 2

(***************************************************************************)
(* Properties of the rows without a name of a cross-reference worksheet    *)
(***************************************************************************)
\* The entries of the rows without a name between row k and the next row
\* with a name, in row order.
RowsFollowing(rows, k) ==
    LET next == Min({j \in (k + 1)..Len(rows) : rows[j][ColOtherName] # None}
                    \cup {Len(rows) + 1})
    IN [j \in 1..(next - k - 1) |-> OtherEntry(rows[k + j])]

\* Row k is the last row of its name.
LastOfName(rows, k) ==
    /\ rows[k][ColOtherName] # None
    /\ \A j \in (k + 1)..Len(rows) : rows[j][ColOtherName] # rows[k][ColOtherName]

\* The read of rows on the file object f ends without an error, the keys of
\* its table are the names of the rows, and the entry of every name holds the
\* rows without a name that follow the row of the name.
GroupedUnderLatestName(rows, f) ==
    LET rd == ReadOtherRows(rows, Absent, f) IN
    /\ rd.err = "none"
    /\ DOMAIN rd.file.taxonomy = OtherNames(rows)
    /\ \A k \in 1..Len(rows) :
          LastOfName(rows, k) =>
              rd.file.taxonomy[rows[k][ColOtherName]].following_entries
                  = RowsFollowing(rows, k)

\* C27: the read of a cross-reference worksheet appends every row without a
\* name, in row order, to the following_entries of the latest row with a
\* name and stores it under no key of its own: the entry of a name holds the
\* rows without a name between its row and the next row with a name.
C27_BlankRowsFollowLatestName ==
    (other # <<>> /\ OtherWellFormed(other)) =>
        GroupedUnderLatestName(other, OtherListsFile)

\* C27 for the earlier revision of the class.
EarlierRevisionGroupsRows ==
    (other # <<>> /\ OtherWellFormed(other)) =>
        GroupedUnderLatestName(other, EarlierOtherListsFile)

\* A worksheet with two different rows without a name after a row with a
\* name has been read.
TwoBlankRowsRead ==
    /\ Len(other) = 3
    /\ other[1][ColOtherName] # None
    /\ other[2][ColOtherName] = None /\ other[3][ColOtherName] = None
    /\ other[2] # other[3]

(***************************************************************************)
(* Properties of the three-row loop of IocMultilingualFile.read            *)
(***************************************************************************)
\* The language keys of the three rows of a cycle.
CycleKeys == Keys(OldLayoutRow1) \cup Keys(OldLayoutRow2) \cup Keys(OldLayoutRow3)

\* The entry e holds the language fields of the rows r1, r2 and r3, each
\* read from its column.
HoldsThreeRows(e, r1, r2, r3) ==
    /\ DOMAIN e = CycleKeys
    /\ \A k \in Keys(OldLayoutRow1) : e[k] = r1[ColOf(OldLayoutRow1, k)]
    /\ \A k \in Keys(OldLayoutRow2) : e[k] = r2[ColOf(OldLayoutRow2, k)]
    /\ \A k \in Keys(OldLayoutRow3) : e[k] = r3[ColOf(OldLayoutRow3, k)]

\* Row n of rows has a species name and the two rows after it have none: the
\* cycle of row n is complete.
CompleteCycleAt(rows, n) ==
    /\ n + 2 <= Len(rows)
    /\ SpeciesNameRow(rows[n])
    /\ ~SpeciesNameRow(rows[n + 1])
    /\ ~SpeciesNameRow(rows[n + 2])

\* The table has a key exactly for the names of the complete cycles read.
StoredIffComplete ==
    \A name \in CycleNameCells :
        name \in DOMAIN multi <=>
            \E n \in 1..Len(cycle.read) :
                CompleteCycleAt(cycle.read, n) /\ cycle.read[n][ColMultiName] = name

\* The turn of the loop on the last row of cycle'.read moves the place in
\* the cycle as claimed and stores an entry on the third row only.
CycleTurn ==
    LET n == Len(cycle'.read)
        r == cycle'.read[n]
    IN IF SpeciesNameRow(r)
       THEN cycle'.i = 1 /\ multi' = multi
       ELSE IF cycle.i = 1
       THEN cycle'.i = 2 /\ multi' = multi
       ELSE IF cycle.i = 2
       THEN /\ cycle'.i = 0
            /\ CompleteCycleAt(cycle'.read, n - 2)
            /\ DOMAIN multi' = (DOMAIN multi) \cup {cycle'.read[n - 2][ColMultiName]}
            /\ HoldsThreeRows(multi'[cycle'.read[n - 2][ColMultiName]],
                              cycle'.read[n - 2], cycle'.read[n - 1], r)
            /\ \A k \in (DOMAIN multi) \ {cycle'.read[n - 2][ColMultiName]} :
                  multi'[k] = multi[k]
       ELSE cycle'.i = 0 /\ multi' = multi

\* C28: in the three-row layout the place in the cycle moves 0 to 1 on a row
\* with a species name, 1 to 2 and 2 to 0 on the rows after it; an entry is
\* stored under the species name exactly when the third row of its cycle is
\* read, and holds the language fields of the three rows; a row with a
\* species name inside a cycle starts a new cycle and the one it interrupts
\* stores no entry.
C28_ThreeRowCycle ==
    /\ [](pc = "old-layout" => StoredIffComplete)
    /\ [][(pc = "old-layout" /\ cycle' # cycle) => CycleTurn]_vars

\* A species row has interrupted the cycle of another species, and its own
\* cycle has been completed: the table holds the second name alone.
C28_Witness ==
    /\ pc = "old-layout"
    /\ Len(cycle.read) = 4
    /\ SpeciesNameRow(cycle.read[1])
    /\ CompleteCycleAt(cycle.read, 2)
    /\ cycle.read[1][ColMultiName] # cycle.read[2][ColMultiName]
    /\ cycle.read[3] # cycle.read[4]
    /\ DOMAIN multi = {cycle.read[2][ColMultiName]}
    /\ cycle.i = 0

(***************************************************************************)
(* Properties of master rows of one canonical name                         *)
(***************************************************************************)
\* The taxa of the canonical name of the taxon n.
SameCanonicalName(n) ==
    {m \in 1..Len(taxa) : CanonicalName(taxa[m]) = CanonicalName(taxa[n])}

\* No two taxa have one canonical name.
CanonicalNamesDistinct == \A n \in 1..Len(taxa) : SameCanonicalName(n) = {n}

\* Every taxon made is in the tree and counted, the index holds under every
\* canonical name the latest taxon of that name, and the index has a key for
\* every taxon exactly when no two taxa have one canonical name.
LatestOfNameIndexed ==
    /\ WalkCount(taxa, taxonomy, AllRanks) = Len(taxa)
    /\ TotalCount(stats) = Len(taxa)
    /\ \A n \in 1..Len(taxa) :
          /\ IndexHas(index, CanonicalName(taxa[n]))
          /\ IndexGet(index, CanonicalName(taxa[n])) = Max(SameCanonicalName(n))
    /\ (Len(index) = Len(taxa)) <=> CanonicalNamesDistinct

\* C29: master rows of one canonical name are not merged: the taxa of both
\* are in the tree and counted, the index holds the later one under the
\* name, and the index has as many keys as the tree has taxa exactly when the
\* canonical names are pairwise different.
C29_DuplicatesKeptLatestIndexed == LatestOfNameIndexed

\* Every key of the index is the canonical name of the taxon it holds.
KeysAreCanonicalNames ==
    \A i \in 1..Len(index) : index[i].key = CanonicalName(taxa[index[i].taxon])

\* C29 where every taxon is registered under its canonical name.
DuplicatesKeptWhereKeysCanonical == KeysAreCanonicalNames => LatestOfNameIndexed

\* Two taxa of one canonical name, registered under it.
DuplicateNameRead ==
    /\ KeysAreCanonicalNames
    /\ \E n \in 1..Len(taxa) : SameCanonicalName(n) # {n}
    /\ Len(index) < Len(taxa)

(***************************************************************************)
(* Properties of the notes of SofNamesFile.read                            *)
(***************************************************************************)
\* The first row with an empty level cell (the row behind the last one where
\* there is none).
NotesStart(rows) ==
    Min({k \in 1..Len(rows) : rows[k][ColSofLevel] = None} \cup {Len(rows) + 1})

\* The locals and the SofWbl at the end of the loop of read on the worksheet.
SofLoop == SofReadRows(SofReadStart, sheet)

\* read has returned or raised, and no write has been tried.
SofReadEnded == pc = "sof-read" /\ err # "ERROR_DATA_DIR_EXISTS_ALREADY"

\* The taxon carries note ids: its notes cell was not empty.
CarriesNoteIds(t) == t.notes # <<>> /\ t.notes # <<Str(None)>>

\* Every note id of a taxon is the id of a note of the notes section.
AllNoteIdsDefined ==
    \A n \in 1..Len(SofLoop.taxa) :
        CarriesNoteIds(SofLoop.taxa[n]) =>
            \A k \in 1..Len(SofLoop.taxa[n].notes) :
                SofLoop.taxa[n].notes[k] \in DOMAIN SofLoop.notes

\* The rows from the first one with an empty level cell on have added no
\* taxon, every taxon with note ids is once in the queue, read has ended
\* without an error and the notes of every such taxon are the texts of its
\* ids, in order.
NotesResolved ==
    /\ Len(SofLoop.taxa) = NotesStart(sheet) - 1
    /\ \A n \in 1..Len(SofLoop.taxa) :
          CarriesNoteIds(SofLoop.taxa[n]) =>
              Cardinality({k \in 1..Len(SofLoop.taxa_with_notes) :
                              SofLoop.taxa_with_notes[k] = n}) = 1
    /\ err = "none"
    /\ \A n \in 1..Len(SofLoop.taxa) :
          CarriesNoteIds(SofLoop.taxa[n]) =>
              taxa[n].notes = [k \in 1..Len(SofLoop.taxa[n].notes) |->
                                  SofLoop.notes[SofLoop.taxa[n].notes[k]]]

\* C30: in SofNamesFile.read every row from the first one with an empty level
\* cell on belongs to the notes section and adds no taxon, and every taxon
\* with note ids is queued once: where every note id is defined in the notes
\* section, read ends without an error and the notes of each such taxon are
\* the texts of its ids in order.
C30_NotesResolvedOnce ==
    (SofReadEnded /\ SofLoop.err = "none" /\ AllNoteIdsDefined) => NotesResolved

\* The last taxon before the notes section carries note ids.
LastTaxonCarriesNoteIds ==
    /\ NotesStart(sheet) <= Len(sheet)
    /\ SofLoop.taxa # <<>>
    /\ CarriesNoteIds(SofLoop.taxa[Len(SofLoop.taxa)])

\* C30 for the worksheets whose last taxon before the notes section has an
\* empty notes cell.
NotesResolvedUnlessLastCarries ==
    (SofReadEnded /\ SofLoop.err = "none" /\ AllNoteIdsDefined
        /\ ~LastTaxonCarriesNoteIds) => NotesResolved

\* A worksheet with two taxa with note ids, a last taxon without, and a row
\* of a species in the notes section has been read.
TwoTaxaResolved ==
    /\ SofReadEnded /\ err = "none" /\ AllNoteIdsDefined
    /\ ~LastTaxonCarriesNoteIds
    /\ Len(SofLoop.taxa_with_notes) = 2
    /\ \E k \in NotesStart(sheet)..Len(sheet) : sheet[k][ColSofLevel] = Art

====
